---- MODULE Spec2Model ----
(***************************************************************************)
(* A model of toslib: the XAC model decoder (src/src/xac.rs), the mesh     *)
(* assembler (export_to_struct / export_to_struct2), the byte reader       *)
(* (src/src/tosreader.rs) and the IPF archive reader (src/src/ipf.rs).     *)
(*                                                                         *)
(* Streams are sequences of bytes; a stream position p is 0-based, the     *)
(* byte at position p is d[p + 1].  Three specifications share the         *)
(* variables:                                                              *)
(*   SpecXac  XACFile::load_from_reader  (read_header, read_chunk)         *)
(*   SpecAsm  XACFile::export_all_meshes_into_struct                       *)
(*   SpecIpf  IPFFile::load_from_reader  (read_footer, read_file_table)    *)
(* Every byte of a generated stream is below 128, so every u32 read from   *)
(* it is below 2^31 and fits the model checker's integers.                 *)
(***************************************************************************)
EXTENDS Integers, Sequences, FiniteSets, TLC

VARIABLES
    overflow_checks, \* build profile: TRUE panics on integer overflow, FALSE wraps
    data,            \* xac: the bytes behind the reader
    pos,             \* xac: the reader's position
    pc,              \* xac: "header", "chunks" or "done"
    outcome,         \* xac: "running", "Ok", "IoError" or "Panic"
    header,          \* xac: XACFile.header
    chunk,           \* xac: XACFile.chunk
    chunk_data,      \* xac: XACFile.chunk_data
    log,             \* xac: one entry per finished iteration of read_chunk (history)
    asm,             \* assembler: the state of export_all_meshes_into_struct
    ipf              \* archive: the state of IPFFile::load_from_reader

vars == <<overflow_checks, data, pos, pc, outcome, header, chunk, chunk_data, log, asm, ipf>>

xacVars == <<data, pos, pc, outcome, header, chunk, chunk_data, log>>

(***************************************************************************)
(* Bounds of the model.                                                    *)
(***************************************************************************)
MaxChunks == 3      \* chunk frames in a generated model stream

(***************************************************************************)
(* Integer helpers.                                                        *)
(***************************************************************************)

Last(s) == s[Len(s)]

\* a * b as the u32 multiplication of two values below 2^31, by 16-bit limbs
\* so that no intermediate value reaches 2^31.  The result is
\* [overflow |-> the product is 2^32 or more,
\*  huge     |-> the product modulo 2^32 is 2^31 or more,
\*  value    |-> the product modulo 2^32 when that is below 2^31, else 0].
MulU32(a, b) ==
    LET ah == a \div 65536
        al == a % 65536
        bh == b \div 65536
        bl == b % 65536
        x  == (al \div 256) * bl
        y  == (al % 256) * bl
        plo == ((x % 256) * 256 + y) % 65536       \* (al * bl) mod 2^16
        phi == (x + (y \div 256)) \div 256          \* (al * bl) div 2^16
        m1 == ah * bl
        m2 == al * bh
        msmall == (m1 % 65536) + (m2 % 65536) + phi
        hi16 == msmall % 65536
        over == \/ (ah > 0 /\ bh > 0)
                \/ m1 >= 65536
                \/ m2 >= 65536
                \/ msmall >= 65536
    IN  [overflow |-> over,
         huge     |-> hi16 >= 32768,
         value    |-> IF hi16 >= 32768 THEN 0 ELSE hi16 * 65536 + plo]

(***************************************************************************)
(* BinaryReader (src/src/tosreader.rs) over a byte sequence d at position  *)
(* p.  A read of n bytes succeeds iff n bytes are left; read_exact and the *)
(* byteorder reads fail with UnexpectedEof otherwise.                      *)
(***************************************************************************)
CanRead(d, p, n) == p >= 0 /\ n >= 0 /\ n <= Len(d) - p

ByteAt(d, p) == d[p + 1]

\* read_u16 / read_u32: little-endian.
U16At(d, p) == d[p + 1] + 256 * d[p + 2]

U32At(d, p) == d[p + 1] + 256 * d[p + 2] + 65536 * d[p + 3] + 16777216 * d[p + 4]

\* read_bytes / a counted Vec<u8>: the n bytes from position p.
BytesAt(d, p, n) == SubSeq(d, p + 1, p + n)

\* reader.read(&mut buffer) on a buffer of n bytes: the number of bytes read,
\* 0 at or past the end of the stream.
BytesRead(d, p, n) ==
    IF p >= Len(d) THEN 0 ELSE IF n <= Len(d) - p THEN n ELSE Len(d) - p

\* A probe that leaves the reader after the byte it read.
is_eof_keeps_byte(d, p) ==
    IF BytesRead(d, p, 1) = 0 THEN [value |-> TRUE, pos |-> p]
    ELSE [value |-> FALSE, pos |-> p + BytesRead(d, p, 1)]

\* is_eof: a 1-byte read; Ok(true) when it read nothing, else
\* seek(SeekFrom::Current(-1)) and Ok(false).  The answer and the position left.
is_eof(d, p) ==
    IF BytesRead(d, p, 1) = 0 THEN [value |-> TRUE, pos |-> p]
    ELSE [value |-> FALSE, pos |-> p + BytesRead(d, p, 1) - 1]

\* tell: seek(SeekFrom::Current(0)).
tell(d, p) == [value |-> p, pos |-> p + 0]

\* file_size: tell, seek(SeekFrom::End(0)), seek(SeekFrom::Start(current_position)).
file_size(d, p) == [value |-> Len(d) + 0, pos |-> tell(d, p).value]

\* The answer of is_eof.
IsEof(d, p) == is_eof(d, p).value

\* The little-endian encoding of a u16 / u32 (used to build streams).
LE16(v) == <<v % 256, (v \div 256) % 256>>

LE32(v) == <<v % 256, (v \div 256) % 256, (v \div 65536) % 256, (v \div 16777216) % 256>>

(***************************************************************************)
(* Chunk ids (enum XacChunk) and the (id, version) pairs process_chunk     *)
(* dispatches to a record decoder.                                         *)
(***************************************************************************)
XacChunkNode == 0
XacChunkMesh == 1
XacChunkSkinninginfo == 2
XacChunkStdmaterial == 3
XacChunkStdmateriallayer == 4
XacChunkFxmaterial == 5
XacLimit == 6
XacChunkInfo == 7
XacChunkMeshlodlevels == 8
XacChunkStdprogmorphtarget == 9
XacChunkNodegroups == 10
XacChunkNodes == 11
XacChunkStdpmorphtargets == 12
XacChunkMaterialinfo == 13
XacChunkNodemotionsources == 14
XacChunkAttachmentnodes == 15

\* The versions process_chunk has a match arm for, per chunk id; {} for an
\* id that falls to the final `_ =>` arm.
HandledVersions(id) ==
    CASE id = XacChunkNode -> {1, 2, 3, 4}
      [] id = XacChunkMesh -> {1, 2}
      [] id = XacChunkSkinninginfo -> {1, 2, 3, 4}
      [] id = XacChunkStdmaterial -> {1, 2, 3}
      [] id = XacChunkStdmateriallayer -> {1, 2}
      [] id = XacChunkFxmaterial -> {1, 2, 3}
      [] id = XacChunkMaterialinfo -> {1, 2}
      [] id = XacChunkNodes -> {1}
      [] id = XacChunkNodegroups -> {1}
      [] id = XacChunkMeshlodlevels -> {1}
      [] id = XacLimit -> {1}
      [] id = XacChunkInfo -> {1, 2, 3, 4}
      [] id = XacChunkStdprogmorphtarget -> {1}
      [] id = XacChunkStdpmorphtargets -> {1}
      [] id = XacChunkNodemotionsources -> {1}
      [] id = XacChunkAttachmentnodes -> {1}
      [] OTHER -> {}

\* The record decoders modelled field by field below.  The generated
\* streams never make process_chunk call another decoder (OnlyModelledDecoders).
Modelled(id, version) ==
    \/ id = XacChunkMesh /\ version \in {1, 2}
    \/ id = XacChunkSkinninginfo /\ version \in {1, 2, 3, 4}
    \/ id = XacChunkMaterialinfo /\ version \in {1, 2}
    \/ id = XacChunkStdmaterial /\ version = 1

\* A failed read: binrw returns Err and the decoder's unwrap() panics.
Failed == [ok |-> FALSE, pos |-> 0, rec |-> <<>>]

(***************************************************************************)
(* XACVertexAttributeLayer, XACSubMesh, XACMesh, XACMesh2.                 *)
(***************************************************************************)
\* The counted mesh_data of a layer at p whose attrib_size_in_bytes is `size`:
\* cnt = MulU32(size, total_verts) bytes after the 12 bytes of fields.  An
\* overflowing multiplication panics under overflow checks and wraps without.
LayerWithData(d, p, size, cnt, oc) ==
    IF (cnt.overflow /\ oc) \/ cnt.huge \/ ~CanRead(d, p + 12, cnt.value)
    THEN Failed
    ELSE [ok |-> TRUE, pos |-> p + 12 + cnt.value,
          rec |-> [layer_type_id |-> U32At(d, p),
                   attrib_size_in_bytes |-> size,
                   enable_deformations |-> ByteAt(d, p + 8),
                   is_scale |-> ByteAt(d, p + 9),
                   mesh_data |-> BytesAt(d, p + 12, cnt.value)]]

\* One XACVertexAttributeLayer at p: 12 bytes of fields, then
\* attrib_size_in_bytes * total_verts bytes (a u32 multiplication).
ReadLayer(d, p, total_verts, oc) ==
    IF ~CanRead(d, p, 12) THEN Failed
    ELSE LayerWithData(d, p, U32At(d, p + 4), MulU32(U32At(d, p + 4), total_verts), oc)

\* A Vec element `one` followed by the rest of the Vec.
ConsRead(one, rest) ==
    IF ~rest.ok THEN Failed
    ELSE [ok |-> TRUE, pos |-> rest.pos, rec |-> <<one.rec>> \o rest.rec]

RECURSIVE ReadLayers(_, _, _, _, _)
RECURSIVE LayersAfter(_, _, _, _, _)
\* #[br(count = num_layers)] vertex_attribute_layer: n layers in a row; rec is the Vec.
ReadLayers(d, p, n, total_verts, oc) ==
    IF n = 0 THEN [ok |-> TRUE, pos |-> p, rec |-> <<>>]
    ELSE LayersAfter(d, n, total_verts, oc, ReadLayer(d, p, total_verts, oc))

\* The n - 1 layers after the layer `one`.
LayersAfter(d, n, total_verts, oc, one) ==
    IF ~one.ok THEN Failed
    ELSE ConsRead(one, ReadLayers(d, one.pos, n - 1, total_verts, oc))

\* n little-endian u32 values from p.
U32sAt(d, p, n) == [k \in 1..n |-> U32At(d, p + 4 * (k - 1))]

\* The counted indices and bones of an XACSubMesh at p.
SubMeshWithArrays(d, p, ni, nb) ==
    IF ni > (Len(d) - (p + 16)) \div 4 \/ nb > (Len(d) - (p + 16)) \div 4 - ni THEN Failed
    ELSE [ok |-> TRUE, pos |-> p + 16 + 4 * ni + 4 * nb,
          rec |-> [num_indices |-> ni,
                   num_verts |-> U32At(d, p + 4),
                   material_index |-> U32At(d, p + 8),
                   num_bones |-> nb,
                   indices |-> U32sAt(d, p + 16, ni),
                   bones |-> U32sAt(d, p + 16 + 4 * ni, nb)]]

\* One XACSubMesh at p: 4 u32 fields, num_indices u32s, num_bones u32s.
ReadSubMesh(d, p) ==
    IF ~CanRead(d, p, 16) THEN Failed
    ELSE SubMeshWithArrays(d, p, U32At(d, p), U32At(d, p + 12))

RECURSIVE ReadSubMeshes(_, _, _)
RECURSIVE SubMeshesAfter(_, _, _)
\* #[br(count = num_sub_meshes)] sub_meshes.
ReadSubMeshes(d, p, n) ==
    IF n = 0 THEN [ok |-> TRUE, pos |-> p, rec |-> <<>>]
    ELSE SubMeshesAfter(d, n, ReadSubMesh(d, p))

\* The n - 1 submeshes after the submesh `one`.
SubMeshesAfter(d, n, one) ==
    IF ~one.ok THEN Failed
    ELSE ConsRead(one, ReadSubMeshes(d, one.pos, n - 1))

\* The XACMesh / XACMesh2 record at p given its decoded Vecs; o is 4 when the
\* lod field shifts the fields after node_index (XACMesh2), else 0.
MeshRecord(d, p, o, layers, subs) ==
    IF ~subs.ok THEN Failed
    ELSE [ok |-> TRUE, pos |-> subs.pos,
          rec |-> [kind |-> IF o = 4 THEN "XACMesh2" ELSE "XACMesh",
                   node_index |-> U32At(d, p),
                   lod |-> IF o = 4 THEN U32At(d, p + 4) ELSE 0,
                   num_org_verts |-> U32At(d, p + 4 + o),
                   total_verts |-> U32At(d, p + 8 + o),
                   total_indices |-> U32At(d, p + 12 + o),
                   num_sub_meshes |-> U32At(d, p + 16 + o),
                   num_layers |-> U32At(d, p + 20 + o),
                   is_collision_mesh |-> ByteAt(d, p + 24 + o),
                   vertex_attribute_layer |-> layers.rec,
                   sub_meshes |-> subs.rec]]

\* The sub_meshes Vec follows the layers.
MeshAfterLayers(d, p, o, layers) ==
    IF ~layers.ok THEN Failed
    ELSE MeshRecord(d, p, o, layers, ReadSubMeshes(d, layers.pos, U32At(d, p + 16 + o)))

\* XACMesh::read (o = 0) and XACMesh2::read (o = 4: one more field, lod).
ReadXacMesh(d, p, o, oc) ==
    IF ~CanRead(d, p, 28 + o) THEN Failed
    ELSE MeshAfterLayers(d, p, o,
             ReadLayers(d, p + 28 + o, U32At(d, p + 20 + o), U32At(d, p + 8 + o), oc))

(***************************************************************************)
(* XacSkinningInfo (version 1) and XacSkinningInfo2/3/4, whose table-entry *)
(* array is sized by num_org_verts of a Mesh record decoded before.        *)
(***************************************************************************)
IsMesh(r) == r.kind \in {"XACMesh", "XACMesh2"}

\* The positions of the Mesh records of cd whose node_index is node_id, in order.
MatchingMeshes(cd, node_id) ==
    SelectSeq([k \in 1..Len(cd) |-> k],
              LAMBDA k : IsMesh(cd[k]) /\ cd[k].node_index = node_id)

\* A lookup that keeps the num_org_verts of the first matching Mesh record.
LookupResultFirstMatch(cd, m, p) ==
    [ok |-> p - 4 * Len(m) >= 0,
     pos |-> p - 4 * Len(m),
     num_org_verts |-> IF Len(m) = 0 THEN 0 ELSE cd[m[1]].num_org_verts,
     matches |-> Len(m)]

\* The `for chunk in &self.chunk_data` loop of read_xac_skinning_info2/3/4,
\* entered at position p (just after the 4-byte read of node_id) with m the
\* matching Mesh records: every match overwrites num_org_verts and steps the
\* reader back 4 bytes.  skip_bytes(-4).unwrap() panics when the position
\* would go below 0.
LookupResult(cd, m, p) ==
    [ok |-> p - 4 * Len(m) >= 0,
     pos |-> p - 4 * Len(m),
     num_org_verts |-> IF Len(m) = 0 THEN 0 ELSE cd[Last(m)].num_org_verts,
     matches |-> Len(m)]

SkinningLookup(cd, node_id, p) == LookupResult(cd, MatchingMeshes(cd, node_id), p)

\* n XacSkinInfluence / XacSkinningInfoTableEntry elements (two 4-byte fields each).
PairsAt(d, p, n) == [k \in 1..n |-> <<U32At(d, p + 8 * (k - 1)), U32At(d, p + 8 * (k - 1) + 4)>>]

\* XacSkinningInfo2/3/4 at q: `fixed` bytes of fields, ninf influences, then
\* num_org_verts table entries.
SkinningRecord(d, q, version, fixed, ninf, num_org_verts) ==
    IF ninf > (Len(d) - (q + fixed)) \div 8
       \/ num_org_verts > (Len(d) - (q + fixed)) \div 8 - ninf
    THEN Failed
    ELSE [ok |-> TRUE, pos |-> q + fixed + 8 * ninf + 8 * num_org_verts,
          rec |-> [kind |-> CASE version = 2 -> "XacSkinningInfo2"
                              [] version = 3 -> "XacSkinningInfo3"
                              [] OTHER -> "XacSkinningInfo4",
                   node_index |-> U32At(d, q),
                   num_total_influences |-> ninf,
                   is_for_collision_mesh |-> ByteAt(d, q + fixed - 4),
                   skinning_influence |-> PairsAt(d, q + fixed, ninf),
                   skinning_info_table_entry |->
                       PairsAt(d, q + fixed + 8 * ninf, num_org_verts)]]

\* XacSkinningInfo2/3/4::read_args at q with the argument num_org_verts.
\* version 2: node_index, num_total_influences, is_for_collision_mesh, padding
\* version 3: node_index, num_local_bones, num_total_influences, ...
\* version 4: node_index, lod, num_local_bones, num_total_influences, ...
ReadSkinningRecord(d, q, version, num_org_verts) ==
    IF ~CanRead(d, q, 4 * version + 4) THEN Failed
    ELSE SkinningRecord(d, q, version, 4 * version + 4, U32At(d, q + 4 * version - 4),
                        num_org_verts)

\* The record read where the lookup left the reader.
SkinningAfterLookup(d, version, look) ==
    IF ~look.ok THEN Failed
    ELSE ReadSkinningRecord(d, look.pos, version, look.num_org_verts)

\* read_xac_skinning_info2/3/4 at p: read node_id, look up, read the record.
ReadXacSkinningInfoN(cd, d, p, version) ==
    IF ~CanRead(d, p, 4) THEN Failed
    ELSE SkinningAfterLookup(d, version, SkinningLookup(cd, U32At(d, p), p + 4))

\* read_xac_skinning_info (version 1): two fixed fields, no lookup.
ReadXacSkinningInfo(d, p) ==
    IF ~CanRead(d, p, 8) THEN Failed
    ELSE [ok |-> TRUE, pos |-> p + 8,
          rec |-> [kind |-> "XacSkinningInfo",
                   node_index |-> U32At(d, p),
                   is_for_collision_mesh |-> ByteAt(d, p + 4)]]

\* read_xac_material_info / read_xac_material_info2: three u32 counts, after lod in version 2.
ReadXacMaterialInfo(d, p, version) ==
    LET o == IF version = 2 THEN 4 ELSE 0
    IN  IF ~CanRead(d, p, 12 + o) THEN Failed
        ELSE [ok |-> TRUE, pos |-> p + 12 + o,
              rec |-> [kind |-> IF version = 2 THEN "XACMaterialInfo2" ELSE "XACMaterialInfo",
                       num_total_materials |-> U32At(d, p + o),
                       num_standard_materials |-> U32At(d, p + 4 + o),
                       num_fx_materials |-> U32At(d, p + 8 + o)]]

\* String::from_utf8_lossy(&s).to_string() as the string's code points: an
\* ASCII byte is its character, a byte of 128 or more that neither begins nor
\* continues a well-formed sequence is U+FFFD.  The generated names hold such
\* bytes one at a time only.
Utf8Lossy(bytes) == [k \in 1..Len(bytes) |-> IF bytes[k] < 128 THEN bytes[k] ELSE 65533]

\* XacStandardMaterial at p with a name of n bytes.
StandardMaterialWithName(d, p, n) ==
    IF ~CanRead(d, p + 88, n) THEN Failed
    ELSE [ok |-> TRUE, pos |-> p + 88 + n,
          rec |-> [kind |-> "XacStandardMaterial",
                   ambient |-> BytesAt(d, p, 16), diffuse |-> BytesAt(d, p + 16, 16),
                   specular |-> BytesAt(d, p + 32, 16), emissive |-> BytesAt(d, p + 48, 16),
                   shine |-> BytesAt(d, p + 64, 4), shine_strength |-> BytesAt(d, p + 68, 4),
                   opacity |-> BytesAt(d, p + 72, 4), ior |-> BytesAt(d, p + 76, 4),
                   double_sided |-> ByteAt(d, p + 80), wireframe |-> ByteAt(d, p + 81),
                   transparency_type |-> ByteAt(d, p + 82), padding |-> ByteAt(d, p + 83),
                   material_name |-> Utf8Lossy(BytesAt(d, p + 88, n))]]

\* read_xac_standard_material (version 1): 84 bytes of fields, the name's
\* length, the name.
ReadXacStandardMaterial(d, p) ==
    IF ~CanRead(d, p, 88) THEN Failed
    ELSE StandardMaterialWithName(d, p, U32At(d, p + 84))

(***************************************************************************)
(* process_chunk: the dispatch on (chunk_id, version).  The result is      *)
(* [called |-> a record decoder ran, ok |-> it returned (no panic),        *)
(*  pos |-> the position it left, rec |-> the record it returned].         *)
(***************************************************************************)
Skipped(p) == [called |-> FALSE, ok |-> TRUE, modelled |-> TRUE, pos |-> p, rec |-> <<>>]

DecodeRecord(cd, d, p, id, version, oc) ==
    CASE id = XacChunkMesh -> ReadXacMesh(d, p, IF version = 2 THEN 4 ELSE 0, oc)
      [] id = XacChunkSkinninginfo /\ version = 1 -> ReadXacSkinningInfo(d, p)
      [] id = XacChunkSkinninginfo /\ version # 1 -> ReadXacSkinningInfoN(cd, d, p, version)
      [] id = XacChunkMaterialinfo -> ReadXacMaterialInfo(d, p, version)
      [] id = XacChunkStdmaterial /\ version = 1 -> ReadXacStandardMaterial(d, p)
      [] OTHER -> Failed

\* A match arm with a decoder: `Some(..read_xac_..(reader))`.
Decoded(r, modelled) ==
    [called |-> TRUE, ok |-> r.ok, modelled |-> modelled, pos |-> r.pos, rec |-> r.rec]

ProcessChunk(cd, d, p, id, version, oc) ==
    IF version \in HandledVersions(id)
    THEN Decoded(DecodeRecord(cd, d, p, id, version, oc), Modelled(id, version))
    ELSE Skipped(p)

(***************************************************************************)
(* Model streams: an 8-byte XacHeader followed by chunk frames             *)
(* {u32 id, u32 size_in_bytes, u32 version, payload}.                      *)
(***************************************************************************)

RECURSIVE Concat(_)
Concat(ss) == IF ss = <<>> THEN <<>> ELSE Head(ss) \o Concat(Tail(ss))

\* "XAC " as the little-endian u32 the header's fourcc field must hold.
XacFourcc == 541278552

HeaderBytes(fourcc, endian_type) == LE32(fourcc) \o <<1, 0, endian_type, 0>>

Frame(id, size, version, payload) == LE32(id) \o LE32(size) \o LE32(version) \o payload

LayerBytes(type_id, attrib_size, bytes) ==
    LE32(type_id) \o LE32(attrib_size) \o <<0, 0, 0, 0>> \o bytes

SubMeshBytes(num_verts, material_index, indices) ==
    LE32(Len(indices)) \o LE32(num_verts) \o LE32(material_index) \o LE32(0)
    \o Concat([k \in 1..Len(indices) |-> LE32(indices[k])])

\* A version-1 Mesh payload (version 2 with has_lod: lod after node_index).
MeshBytes(has_lod, node_index, num_org_verts, total_verts, layers, subs) ==
    LE32(node_index) \o (IF has_lod THEN LE32(1) ELSE <<>>) \o LE32(num_org_verts)
    \o LE32(total_verts) \o LE32(0) \o LE32(Len(subs)) \o LE32(Len(layers))
    \o <<0, 0, 0, 0>> \o Concat(layers) \o Concat(subs)

\* A SkinningInfo payload of version 2, 3 or 4 holding `entries` table entries.
SkinBytes(version, node_index, influences, entries) ==
    LE32(node_index) \o (IF version = 4 THEN LE32(0) ELSE <<>>)
    \o (IF version >= 3 THEN LE32(1) ELSE <<>>) \o LE32(Len(influences))
    \o <<0, 0, 0, 0>>
    \o Concat([k \in 1..Len(influences) |-> LE32(influences[k][1]) \o LE32(influences[k][2])])
    \o Concat([k \in 1..Len(entries) |-> LE32(entries[k][1]) \o LE32(entries[k][2])])

\* An id outside enum XacChunk.
UnknownId == XacChunkAttachmentnodes + 1

MeshA == MeshBytes(FALSE, 7, 2, 0, <<>>, <<>>)
MeshB == MeshBytes(TRUE, 7, 1, 0, <<>>, <<>>)
MeshC == MeshBytes(FALSE, 8, 1, 1, <<LayerBytes(0, 12, <<1, 2, 3, 4, 5, 6, 7, 8, 9, 10, 11, 12>>)>>,
                   <<SubMeshBytes(1, 0, <<0>>)>>)
Skin3 == SkinBytes(3, 7, <<<<1, 2>>>>, <<<<0, 1>>, <<1, 1>>>>)
\* One table entry (UnknownId, 0) and 4 more bytes: read as a chunk header, these
\* 12 bytes are a chunk of an unknown id and size 0.
Skin2 == SkinBytes(2, 8, <<>>, <<<<UnknownId, 0>>>>) \o <<1, 0, 0, 0>>
Skin4 == SkinBytes(4, 9, <<>>, <<>>)
\* A Mesh record of node 8 without vertices, and five chunks of it in a row.
MeshD == MeshBytes(FALSE, 8, 0, 0, <<>>, <<>>)
\* A Mesh record whose layer holds 65536 * 65536 bytes by its fields: a product of 2^32.
MeshE == MeshBytes(FALSE, 9, 0, 65536, <<LayerBytes(0, 65536, <<>>)>>, <<>>)
FiveMeshes == Concat([k \in 1..5 |-> Frame(XacChunkMesh, Len(MeshD), 1, MeshD)])

\* The pieces a generated stream is made of: chunk frames, and one run of frames.
XacFrames ==
    { Frame(UnknownId, 2, 1, <<5, 6>>),                 \* unknown id
      FiveMeshes,
      Frame(UnknownId, 30000, 1, <<>>),                 \* declared size past the stream's end
      Frame(XacChunkMesh, Len(MeshA), 1, MeshA),
      Frame(XacChunkMesh, Len(MeshB), 2, MeshB),        \* same node as MeshA
      Frame(XacChunkMesh, Len(MeshC) + 4, 1, MeshC \o <<0, 0, 0, 0>>), \* 4 bytes undecoded
      Frame(XacChunkMesh, 4, 3, <<1, 2, 3, 4>>),        \* known id, version without decoder
      Frame(XacChunkSkinninginfo, Len(Skin3), 3, Skin3),
      Frame(XacChunkSkinninginfo, 12, 2, Skin2),        \* declared size: the fixed fields only
      Frame(XacChunkSkinninginfo, Len(Skin4), 4, Skin4),
      Frame(XacChunkSkinninginfo, 8, 1, LE32(7) \o <<0, 0, 0, 0>>),
      Frame(XacChunkMesh, Len(MeshE), 1, MeshE) }

\* All sequences over S of length at most n.
SeqsUpTo(S, n) == UNION {[1..k -> S] : k \in 0..n}

\* The header variants: the expected one, a wrong fourcc, a big-endian flag.
XacHeaders == { HeaderBytes(XacFourcc, 0), HeaderBytes(XacFourcc - 1, 0), HeaderBytes(XacFourcc, 1) }

\* The stream made of header h and frames fs, cut short by `cut` bytes (a
\* truncated file when cut > 0).
XacStream(h, fs, cut) == SubSeq(h \o Concat(fs), 1, Len(h) + Len(Concat(fs)) - cut)

(***************************************************************************)
(* States outside the specification at hand.                               *)
(***************************************************************************)
AsmIdle == [pc |-> "idle"]

IpfIdle == [pc |-> "idle"]

(***************************************************************************)
(* XACFile::load_from_reader: read_header, then read_chunk.                *)
(***************************************************************************)
InitXac ==
    /\ overflow_checks \in BOOLEAN
    /\ \E h \in XacHeaders, fs \in SeqsUpTo(XacFrames, MaxChunks), cut \in {0, 3} :
           data = XacStream(h, fs, cut)
    /\ pos = 0
    /\ pc = "header"
    /\ outcome = "running"
    /\ header = [fourcc |-> 0, hi_version |-> 0, lo_version |-> 0,
                 endian_type |-> 0, mul_order |-> 0]      \* XACFile::default()
    /\ chunk = <<>>
    /\ chunk_data = <<>>
    /\ log = <<>>
    /\ asm = AsmIdle
    /\ ipf = IpfIdle

\* XacHeader::read: four fields, none of them validated.
XacHeaderRead(d, p) ==
    IF ~CanRead(d, p, 8) THEN Failed
    ELSE [ok |-> TRUE, pos |-> p + 8,
          rec |-> [fourcc |-> U32At(d, p), hi_version |-> ByteAt(d, p + 4),
                   lo_version |-> ByteAt(d, p + 5), endian_type |-> ByteAt(d, p + 6),
                   mul_order |-> ByteAt(d, p + 7)]]

\* read_header: XacHeader::read(..).unwrap().
HeaderStep(h) ==
    IF h.ok
    THEN /\ header' = h.rec
         /\ pos' = h.pos
         /\ pc' = "chunks"
         /\ outcome' = outcome
    ELSE /\ outcome' = "Panic"
         /\ UNCHANGED <<header, pos, pc>>

ReadHeader ==
    /\ pc = "header"
    /\ outcome = "running"
    /\ HeaderStep(XacHeaderRead(data, pos))
    /\ UNCHANGED <<overflow_checks, data, chunk, chunk_data, log, asm, ipf>>

\* A loop that leaves the reader where the record decoder stopped.
TargetPosNoSeek(position, size_in_bytes, after) == after

\* The position read_chunk seeks to after process_chunk: position + size_in_bytes,
\* wherever the record decoder left the reader (`after`).
TargetPos(position, size_in_bytes, after) == position + size_in_bytes

\* A loop that keeps the chunk headers of the decoded records only.
PushChunkIfDecoded(cs, c, r) == IF r.called THEN Append(cs, c) ELSE cs

\* self.chunk.push(chunk) at the end of every iteration, whatever process_chunk
\* (whose result is r) did with the chunk.
PushChunk(cs, c, r) == Append(cs, c)

\* What process_chunk does to chunk_data: a decoded record is pushed, a skipped
\* chunk pushes nothing.
PushDecoded(cd, r) == IF r.called THEN Append(cd, r.rec) ELSE cd

\* The FileChunk header at p.
FileChunkAt(d, p) ==
    [chunk_id |-> U32At(d, p), size_in_bytes |-> U32At(d, p + 4), version |-> U32At(d, p + 8)]

\* The body of the loop of read_chunk after the chunk header c was read and
\* process_chunk returned r (or panicked): seek to the target and push the chunk.
\* log keeps, for every finished iteration, where it began, the position after
\* the chunk header, where the record decoder left the reader, whether a decoder
\* was called and the index of its record in chunk_data.
AfterProcessChunk(c, position, r) ==
    IF ~r.ok
    THEN \* the record decoder's unwrap() panics
         /\ outcome' = IF r.modelled THEN "Panic" ELSE "Unmodelled"
         /\ UNCHANGED <<pos, pc, chunk, chunk_data, log>>
    ELSE /\ chunk_data' = PushDecoded(chunk_data, r)
         /\ pos' = TargetPos(position, c.size_in_bytes, r.pos)
         /\ chunk' = PushChunk(chunk, c, r)
         /\ log' = Append(log, [begin |-> pos, position |-> position,
                                after |-> r.pos, called |-> r.called,
                                record |-> Len(chunk_data')])
         /\ UNCHANGED <<pc, outcome>>

\* process_chunk on the chunk header c, at the position after it.
IterationAt(c, position) ==
    AfterProcessChunk(c, position,
        ProcessChunk(chunk_data, data, position, c.chunk_id, c.version, overflow_checks))

\* One iteration of the `while !reader.is_eof()?` loop of read_chunk.
ReadChunk ==
    /\ pc = "chunks"
    /\ outcome = "running"
    /\ ~IsEof(data, pos)
    /\ IF ~CanRead(data, pos, 12)
       THEN \* one of the three read_u32()? of the chunk header fails: Err is returned
            /\ outcome' = "IoError"
            /\ UNCHANGED <<pos, pc, chunk, chunk_data, log>>
       ELSE IterationAt(FileChunkAt(data, pos), pos + 12)
    /\ UNCHANGED <<overflow_checks, data, header, asm, ipf>>

\* read_chunk leaves the loop at the end of the stream and returns Ok.
ReadChunkEof ==
    /\ pc = "chunks"
    /\ outcome = "running"
    /\ IsEof(data, pos)
    /\ pc' = "done"
    /\ outcome' = "Ok"
    /\ UNCHANGED <<overflow_checks, data, pos, header, chunk, chunk_data, log, asm, ipf>>

NextXac == ReadHeader \/ ReadChunk \/ ReadChunkEof

SpecXac == InitXac /\ [][NextXac]_vars

\* Every record decoder process_chunk calls on a generated stream is one of
\* the decoders modelled above.
OnlyModelledDecoders == outcome # "Unmodelled"

(***************************************************************************)
(* read_chunk as a function of the stream: the loop run from position p    *)
(* with the records cd decoded so far.                                     *)
(***************************************************************************)
RECURSIVE ReadChunkFrom(_, _, _, _, _)
RECURSIVE ReadChunkAfter(_, _, _, _, _, _, _)
ReadChunkFrom(d, p, cd, cs, oc) ==
    IF IsEof(d, p) THEN [outcome |-> "Ok", pos |-> p, chunk_data |-> cd, chunk |-> cs]
    ELSE IF ~CanRead(d, p, 12)
    THEN [outcome |-> "IoError", pos |-> p, chunk_data |-> cd, chunk |-> cs]
    ELSE ReadChunkAfter(d, p, FileChunkAt(d, p), cd, cs, oc,
             ProcessChunk(cd, d, p + 12, U32At(d, p), U32At(d, p + 8), oc))

ReadChunkAfter(d, p, c, cd, cs, oc, r) ==
    IF ~r.ok THEN [outcome |-> "Panic", pos |-> p, chunk_data |-> cd, chunk |-> cs]
    ELSE ReadChunkFrom(d, TargetPos(p + 12, c.size_in_bytes, r.pos), PushDecoded(cd, r),
                       PushChunk(cs, c, r), oc)

(***************************************************************************)
(* Properties of the chunk loop.                                           *)
(***************************************************************************)
\* The position the i-th finished iteration left the stream at.
PosAfter(i) == IF i < Len(log) THEN log[i + 1].begin ELSE pos

\* C1: after every finished chunk iteration the stream position is
\* start + size_in_bytes, start being the position right after the 12-byte
\* chunk header, whether the record decoder stopped before, at or after it.
C1_PositionAfterChunk ==
    \A i \in 1..Len(log) :
        /\ log[i].position = log[i].begin + 12
        /\ PosAfter(i) = log[i].position + chunk[i].size_in_bytes

\* A run that ended with Ok after a decoder consumed fewer bytes than declared,
\* one consumed exactly as many and one consumed more.
C1_Witness ==
    /\ outcome = "Ok"
    /\ \E i, j, k \in 1..Len(log) :
           /\ log[i].called /\ log[i].after < log[i].position + chunk[i].size_in_bytes
           /\ log[j].called /\ log[j].after = log[j].position + chunk[j].size_in_bytes
           /\ log[k].called /\ log[k].after > log[k].position + chunk[k].size_in_bytes

\* C2: every iteration of the chunk loop leaves the stream strictly further
\* than where it began, and the loop ends by reaching the end of the stream
\* and returning, whatever the records hold.
C2_ProgressAndReturn ==
    /\ \A i \in 1..Len(log) : PosAfter(i) > log[i].begin
    /\ pc = "chunks" => outcome # "Panic"

\* C3: a chunk of an unknown id, or of a known id in a version without a
\* decoder, appends no record, and the rest of the stream decodes as it does
\* when the chunk is taken out of the stream.
C3_SkippedChunkLeavesNoTrace ==
    (/\ log # <<>>
     /\ Last(chunk).version \notin HandledVersions(Last(chunk).chunk_id))
    => /\ ~Last(log).called
       /\ Last(log).record = IF Len(log) = 1 THEN 0 ELSE log[Len(log) - 1].record
       /\ ReadChunkFrom(data, pos, chunk_data, <<>>, overflow_checks).chunk_data
          = ReadChunkFrom(SubSeq(data, 1, Last(log).begin) \o SubSeq(data, pos + 1, Len(data)),
                          Last(log).begin, chunk_data, <<>>, overflow_checks).chunk_data

\* C4: a stream whose first 4 bytes are not the magic tag fails with BadHeader
\* and no chunk of it is decoded.
C4_BadMagicRejected ==
    (pc # "header" /\ U32At(data, 0) # XacFourcc)
    => (outcome = "BadHeader" /\ chunk = <<>> /\ chunk_data = <<>>)

\* C5: a stream whose header declares big-endian fails with
\* UnsupportedEndianness and no chunk of it is decoded; only a little-endian
\* header proceeds to the chunk loop.
C5_BigEndianRejected ==
    (pc # "header" /\ ByteAt(data, 6) # 0)
    => (outcome = "UnsupportedEndianness" /\ chunk = <<>> /\ chunk_data = <<>>)

(***************************************************************************)
(* SkinningInfo records and the Mesh records decoded before them.          *)
(***************************************************************************)
\* The finished iterations that decoded a SkinningInfo record of version 2-4.
SkinIterations ==
    {i \in 1..Len(log) : chunk[i].chunk_id = XacChunkSkinninginfo /\ chunk[i].version \in 2..4}

\* The Mesh records decoded before iteration i whose node index is the one
\* at the start of the payload of chunk i.
MeshesBefore(i) ==
    {m \in 1..(log[i].record - 1) :
        IsMesh(chunk_data[m]) /\ chunk_data[m].node_index = U32At(data, log[i].position)}

\* The largest element of a non-empty set of numbers.
Max(S) == CHOOSE x \in S : \A y \in S : y <= x

\* C7 (as the code has it): a SkinningInfo record of version 2-4 decoded after
\* Mesh records of its node index has as many table entries as the
\* num_org_verts of the last of these Mesh records.
C7_TableLengthOfLastMesh ==
    \A i \in SkinIterations :
        MeshesBefore(i) # {} =>
            Len(chunk_data[log[i].record].skinning_info_table_entry)
            = chunk_data[Max(MeshesBefore(i))].num_org_verts

\* A SkinningInfo record decoded with 2 table entries after two Mesh records
\* of its node, of which the first has another num_org_verts.
C7_Witness ==
    \E i \in SkinIterations :
        /\ Cardinality(MeshesBefore(i)) = 2
        /\ Len(chunk_data[log[i].record].skinning_info_table_entry) = 2
        /\ \E m \in MeshesBefore(i) : chunk_data[m].num_org_verts = 1

\* C7 (as stated): the table has the num_org_verts of every Mesh record of
\* that node index decoded before.
C7_TableLengthOfAnyMesh ==
    \A i \in SkinIterations :
        \A m \in MeshesBefore(i) :
            Len(chunk_data[log[i].record].skinning_info_table_entry)
            = chunk_data[m].num_org_verts

\* C25 (as stated): a SkinningInfo record of version 2-4 decoded after two or
\* more Mesh records of its node index is read from the first byte of the
\* chunk payload, the reader having been stepped back by 4 bytes in all: its
\* node_index is the value peeked there, and the decoder was entered at the
\* payload start and never left the reader before it.
C25_ManyMatchesRewindOnce ==
    \A i \in SkinIterations :
        Cardinality(MeshesBefore(i)) >= 2 =>
            /\ chunk_data[log[i].record].node_index = U32At(data, log[i].position)
            /\ SkinningLookup(SubSeq(chunk_data, 1, log[i].record - 1),
                              U32At(data, log[i].position), log[i].position + 4).pos
               = log[i].position

\* The layer l holds attrib_size_in_bytes * total_verts bytes, the product
\* taken in the integers (stated by division, the product may pass 2^31).
HoldsProduct(l, total_verts) ==
    IF l.attrib_size_in_bytes = 0 \/ total_verts = 0 THEN Len(l.mesh_data) = 0
    ELSE /\ Len(l.mesh_data) % l.attrib_size_in_bytes = 0
         /\ Len(l.mesh_data) \div l.attrib_size_in_bytes = total_verts

\* C24 (as stated): every vertex attribute layer of a decoded Mesh record
\* holds exactly width * total_verts bytes, width being its
\* attrib_size_in_bytes and total_verts that of the mesh.
C24_LayerHoldsWidthTimesVerts ==
    \A k \in 1..Len(chunk_data) :
        IsMesh(chunk_data[k]) =>
            \A j \in 1..Len(chunk_data[k].vertex_attribute_layer) :
                HoldsProduct(chunk_data[k].vertex_attribute_layer[j], chunk_data[k].total_verts)

\* C21 (as stated): a read that fails inside a record decoder is returned to
\* the caller of the load as an IoError: the chunk loop stops with nothing
\* but that error, the load does not abort.
C21_DecoderFailureReturned ==
    pc = "chunks" => outcome \in {"running", "IoError"}

\* C18 (as stated): a SkinningInfo record of version 2-4 is read from the first
\* byte of the chunk payload, matching Mesh record or none: its node_index is
\* the value peeked there.
C18_PeekKeepsPosition ==
    \A i \in SkinIterations :
        chunk_data[log[i].record].node_index = U32At(data, log[i].position)

\* The chunk loop is at a SkinningInfo chunk of version 2-4 whose node index no
\* Mesh record decoded so far has, and whose record, read from the start of
\* the payload with an empty table, lies within the stream.
NoMatchSkinPending ==
    /\ pc = "chunks"
    /\ CanRead(data, pos, 16)
    /\ FileChunkAt(data, pos).chunk_id = XacChunkSkinninginfo
    /\ FileChunkAt(data, pos).version \in 2..4
    /\ MatchingMeshes(chunk_data, U32At(data, pos + 12)) = <<>>
    /\ ReadSkinningRecord(data, pos + 12, FileChunkAt(data, pos).version, 0).ok

\* C19 (as stated): a SkinningInfo record of version 2-4 whose node index no
\* Mesh record decoded before it has is decoded with an empty table, and the
\* loop goes on to the next chunk without an error.
C19_NoMatchDecodesEmpty ==
    /\ \A i \in SkinIterations :
           MeshesBefore(i) = {} =>
               chunk_data[log[i].record].skinning_info_table_entry = <<>>
    /\ NoMatchSkinPending => outcome = "running"

\* The chunk frames of the stream d from p on, each as long as its header declares.
RECURSIVE FramesFrom(_, _)
FramesFrom(d, p) ==
    IF p >= Len(d) THEN 0 ELSE 1 + FramesFrom(d, p + 12 + U32At(d, p + 4))

\* C20: every finished iteration of the chunk loop, its record decoded or
\* skipped, has added its chunk header to the chunk list, in stream order;
\* when the loop returns the list is as long as the stream has chunk frames.
C20_OneChunkPerFrame ==
    /\ Len(chunk) = Len(log)
    /\ \A i \in 1..Len(log) : chunk[i] = FileChunkAt(data, log[i].begin)
    /\ \A i \in 1..Len(log) : log[i].begin = IF i = 1 THEN 8 ELSE PosAfter(i - 1)
    /\ outcome = "Ok" => Len(chunk) = FramesFrom(data, 8)

\* A stream of three chunks read to its end: one skipped, one decoded.
C20_Witness ==
    /\ outcome = "Ok"
    /\ Len(chunk) = 3
    /\ \E i, j \in 1..Len(log) : ~log[i].called /\ log[j].called

(***************************************************************************)
(* Mesh assembly: export_all_meshes_into_struct and export_to_struct /     *)
(* export_to_struct2 (the two bodies are the same text).                   *)
(*                                                                         *)
(* An f32 is kept as the 4 bytes of its bit pattern, least significant     *)
(* first, as f32::from_le_bytes takes them; negating it flips the sign     *)
(* bit, the top bit of the last byte.                                      *)
(***************************************************************************)
MaxSubMeshes == 2   \* submeshes of a generated mesh
MaxVerts == 2       \* num_verts of a generated submesh
Rows == 3           \* total_verts of a generated mesh: the rows of each full-width layer

AttribPositions == 0
AttribNormals == 1
AttribTangents == 2
AttribUvcoords == 3
AttribColors32 == 4
AttribOrgvtxnumbers == 5
AttribColors128 == 6
AttribBitangents == 7

\* The attribute kinds in the order export_to_struct works through them.
AttribKinds == AttribPositions..AttribBitangents

\* Bytes of one row of a layer: the factor of `actual_index * ..` in each block.
RowWidth(kind) ==
    CASE kind \in {AttribPositions, AttribNormals, AttribBitangents} -> 12
      [] kind \in {AttribTangents, AttribColors128} -> 16
      [] kind = AttribUvcoords -> 8
      [] OTHER -> 4

\* The message of the io::Error each block returns.
OutOfBoundsMessage(kind) ==
    CASE kind = AttribPositions -> "Vertex data out of bounds"
      [] kind = AttribNormals -> "Normal data out of bounds"
      [] kind = AttribTangents -> "Tangent data out of bounds"
      [] kind = AttribUvcoords -> "UV data out of bounds"
      [] kind = AttribColors32 -> "Color32 data out of bounds"
      [] kind = AttribOrgvtxnumbers -> "Original vertex numbers data out of bounds"
      [] kind = AttribColors128 -> "Color128 data out of bounds"
      [] OTHER -> "Bitangent data out of bounds"

\* The smallest element of a non-empty set of numbers.
MinOf(S) == CHOOSE x \in S : \A y \in S : x <= y

\* vertex_attribute_layer.iter().find(|layer| layer.layer_type_id == t): the
\* index of the first layer of type t, 0 for None.
FindLayer(layers, t) ==
    IF \E k \in 1..Len(layers) : layers[k].layer_type_id = t
    THEN MinOf({k \in 1..Len(layers) : layers[k].layer_type_id = t})
    ELSE 0

\* f32::from_le_bytes(buf[off..off + 4]).
F32At(buf, off) == BytesAt(buf, off, 4)

\* A negation that leaves the value as it is.
NegKeep(f) == f

\* -x on an f32.
Neg(f) == [f EXCEPT ![4] = (f[4] + 128) % 256]

\* The element pushed for the row at byte offset off of a layer of each kind.
Row(kind, buf, off) ==
    CASE kind \in {AttribPositions, AttribNormals} ->
             <<Neg(F32At(buf, off)), F32At(buf, off + 4), F32At(buf, off + 8)>>
      [] kind \in {AttribTangents, AttribColors128} ->
             <<F32At(buf, off), F32At(buf, off + 4), F32At(buf, off + 8), F32At(buf, off + 12)>>
      [] kind = AttribUvcoords -> <<F32At(buf, off), F32At(buf, off + 4)>>
      [] kind \in {AttribColors32, AttribOrgvtxnumbers} -> U32At(buf, off)
      [] OTHER -> <<F32At(buf, off), F32At(buf, off + 4), F32At(buf, off + 8)>>

\* A check that forgets the width of the row.
RowFitsStart(offset, width, len) == offset <= len

\* The negation of `if offset + 12 > data.len() { return Err(..) }`.
RowFits(offset, width, len) == offset + width <= len

\* let actual_index = vertex_offset + v; let offset = (actual_index * 12) as usize;
\* Every row below actual_index has passed RowFits against a buffer of less
\* than 2^32 bytes, so the u32 product does not wrap.
RowOffset(vertex_offset, v, width) == (vertex_offset + v) * width

\* The v at which the loop `for v in 0..num_verts` of one block stops early,
\* num_verts when it runs to its end: at the first row that fails the check,
\* or whose slice buf[offset..offset + width] is out of range (a panic).
FirstStop(buf, kind, vertex_offset, num_verts) ==
    MinOf({num_verts} \cup
          {v \in 0..(num_verts - 1) :
              \/ ~RowFits(RowOffset(vertex_offset, v, RowWidth(kind)), RowWidth(kind), Len(buf))
              \/ RowOffset(vertex_offset, v, RowWidth(kind)) + RowWidth(kind) > Len(buf)})

\* One block run up to `stop`: the rows pushed, the byte offsets read, and how it ended.
AttrRowsUpTo(buf, kind, vertex_offset, num_verts, stop) ==
    [status |-> IF stop = num_verts THEN "Ok"
                ELSE IF ~RowFits(RowOffset(vertex_offset, stop, RowWidth(kind)),
                                 RowWidth(kind), Len(buf))
                THEN "Err" ELSE "Panic",
     rows |-> [v \in 1..stop |-> Row(kind, buf, RowOffset(vertex_offset, v - 1, RowWidth(kind)))],
     reads |-> [v \in 1..stop |-> RowOffset(vertex_offset, v - 1, RowWidth(kind))]]

AttrRows(buf, kind, vertex_offset, num_verts) ==
    AttrRowsUpTo(buf, kind, vertex_offset, num_verts,
                 FirstStop(buf, kind, vertex_offset, num_verts))

\* `if let Some(layer) = .._layer { .. }` for the layer found at index k (0: None).
LayerRowsAt(layers, k, kind, vertex_offset, num_verts) ==
    IF k = 0 THEN [status |-> "Ok", rows |-> <<>>, reads |-> <<>>]
    ELSE AttrRows(layers[k].mesh_data, kind, vertex_offset, num_verts)

\* The eight blocks of the loop body, each by itself.
SubMeshAttrs(layers, vertex_offset, num_verts) ==
    [kind \in AttribKinds |->
        LayerRowsAt(layers, FindLayer(layers, kind), kind, vertex_offset, num_verts)]

\* get_texture_names: the names of the material records of chunk_data.
RECURSIVE GetTextureNames(_)
GetTextureNames(cd) ==
    IF cd = <<>> THEN <<>>
    ELSE (IF Head(cd).kind \in {"XacStandardMaterial", "XacStandardMaterial2",
                                "XacStandardMaterial3"}
          THEN <<Head(cd).material_name>> ELSE <<>>) \o GetTextureNames(Tail(cd))

\* A lookup that counts the names from 1.
TextureNameFromOne(textures, material_index) ==
    IF material_index # 0 /\ material_index <= Len(textures)
    THEN textures[material_index] ELSE <<>>

\* `if material_index != 0 { if let Some(name) = texture_name.get(material_index) {..} }`
\* on the String::new() the SubMesh starts with; get() counts from 0.
TextureName(textures, material_index) ==
    IF material_index # 0 /\ material_index < Len(textures)
    THEN textures[material_index + 1] ELSE <<>>

\* A SubMesh whose original_vertex_numbers_count stays at the 0 it starts with.
SubMeshDataStaleCount(attrs, texture) ==
    [texture_name |-> texture,
     position_count |-> Len(attrs[AttribPositions].rows),
     positions |-> attrs[AttribPositions].rows,
     normal_count |-> Len(attrs[AttribNormals].rows),
     normals |-> attrs[AttribNormals].rows,
     tangent_count |-> Len(attrs[AttribTangents].rows),
     tangents |-> attrs[AttribTangents].rows,
     uvcoord_count |-> Len(attrs[AttribUvcoords].rows),
     uvcoords |-> attrs[AttribUvcoords].rows,
     color32_count |-> Len(attrs[AttribColors32].rows),
     colors32 |-> attrs[AttribColors32].rows,
     original_vertex_numbers_count |-> 0,
     original_vertex_numbers |-> attrs[AttribOrgvtxnumbers].rows,
     color128_count |-> Len(attrs[AttribColors128].rows),
     colors128 |-> attrs[AttribColors128].rows,
     bitangent_count |-> Len(attrs[AttribBitangents].rows),
     bitangents |-> attrs[AttribBitangents].rows]

\* The SubMesh filled from the eight blocks.
SubMeshData(attrs, texture) ==
    [texture_name |-> texture,
     position_count |-> Len(attrs[AttribPositions].rows),
     positions |-> attrs[AttribPositions].rows,
     normal_count |-> Len(attrs[AttribNormals].rows),
     normals |-> attrs[AttribNormals].rows,
     tangent_count |-> Len(attrs[AttribTangents].rows),
     tangents |-> attrs[AttribTangents].rows,
     uvcoord_count |-> Len(attrs[AttribUvcoords].rows),
     uvcoords |-> attrs[AttribUvcoords].rows,
     color32_count |-> Len(attrs[AttribColors32].rows),
     colors32 |-> attrs[AttribColors32].rows,
     original_vertex_numbers_count |-> Len(attrs[AttribOrgvtxnumbers].rows),
     original_vertex_numbers |-> attrs[AttribOrgvtxnumbers].rows,
     color128_count |-> Len(attrs[AttribColors128].rows),
     colors128 |-> attrs[AttribColors128].rows,
     bitangent_count |-> Len(attrs[AttribBitangents].rows),
     bitangents |-> attrs[AttribBitangents].rows]

\* A push that does not look at the arrays.
HasDataAlways(attrs) == TRUE

\* `if !submesh_data.positions.is_empty() || .. { submeshes.push(submesh_data) }`
HasData(attrs) == \E kind \in AttribKinds : attrs[kind].rows # <<>>

\* The running offset is a u32 kept in two parts, bit 31 (asm.offset_top)
\* and the 31 bits below it (asm.vertex_offset), so that a sum of vertex
\* counts of 2^31 and more is there.  Whether a + n, both below 2^31, reaches 2^31.
Reaches31(a, n) == a > 2147483647 - n

\* An offset that moves on only past a submesh that was pushed.
NextOffsetIfPushed(vertex_offset, num_verts, pushed) ==
    IF pushed THEN vertex_offset + num_verts ELSE vertex_offset

\* vertex_offset += submesh.num_verts, whether the submesh was pushed or not:
\* the 31 low bits of the sum.
NextOffset(vertex_offset, num_verts, pushed) ==
    IF Reaches31(vertex_offset, num_verts)
    THEN vertex_offset - (2147483647 - num_verts) - 1
    ELSE vertex_offset + num_verts

\* Bit 31 of the sum and upwards: 0, 1, or 2 when the sum is 2^32 or more.
NextTop(offset_top, vertex_offset, num_verts) ==
    offset_top + (IF Reaches31(vertex_offset, num_verts) THEN 1 ELSE 0)

(***************************************************************************)
(* Generated meshes: one Mesh chunk whose layers and submeshes vary,       *)
(* decoded by the chunk loop above.                                        *)
(***************************************************************************)
\* The bytes of a layer: all different, some with the top bit set; the u32
\* layers keep theirs below 128.
LayerContent(t, n) ==
    [j \in 1..n |-> IF t \in {AttribColors32, AttribOrgvtxnumbers}
                     THEN (37 * j) % 128 ELSE (37 * j + t) % 256]

\* A layer of type l[1] whose attrib_size_in_bytes is l[2], for Rows vertices.
AsmLayer(l) == LayerBytes(l[1], l[2], LayerContent(l[1], l[2] * Rows))

\* The layers of a generated mesh, each <<layer_type_id, attrib_size_in_bytes>>:
\* none, one of each kind, all kinds, rows shorter than the kind's width, and
\* two layers of one kind.
AsmLayerSets ==
    {<<>>}
    \cup {<<<<t, RowWidth(t)>>>> : t \in AttribKinds}
    \cup {[t \in 1..8 |-> <<t - 1, RowWidth(t - 1)>>]}
    \cup {<<<<AttribPositions, 8>>>>, <<<<AttribUvcoords, 4>>>>, <<<<AttribColors32, 2>>>>,
          <<<<AttribPositions, 12>>, <<AttribPositions, 8>>>>,
          <<<<AttribPositions, 8>>, <<AttribPositions, 12>>>>,
          <<<<AttribPositions, 12>>, <<AttribNormals, 8>>>>,
          <<<<AttribUvcoords, 8>>, <<AttribPositions, 12>>>>}

\* The payload of a Mesh chunk with the layers ls and submeshes of cs[k] vertices.
AsmMeshBytes(has_lod, ls, cs) ==
    MeshBytes(has_lod, 7, Rows, Rows,
              [k \in 1..Len(ls) |-> AsmLayer(ls[k])],
              [k \in 1..Len(cs) |-> SubMeshBytes(cs[k], k - 1, <<>>)])

MeshFrame(has_lod, payload) ==
    Frame(XacChunkMesh, Len(payload), IF has_lod THEN 2 ELSE 1, payload)

\* A version-1 StdMaterial chunk: 84 bytes of fields, then the name.
MaterialFrame(name) ==
    Frame(XacChunkStdmaterial, 88 + Len(name), 1,
          [j \in 1..84 |-> j % 128] \o LE32(Len(name)) \o name)

\* What a generated model file holds before the generated mesh: nothing, a
\* first mesh, a record that is no mesh, one material, two materials.
AsmLeads ==
    { <<>>, MeshFrame(FALSE, MeshC),
      Frame(XacChunkMaterialinfo, 12, 1, LE32(2) \o LE32(2) \o LE32(0)),
      MaterialFrame(<<97>>),
      MaterialFrame(<<97>>) \o MaterialFrame(<<98, 200>>) }

\* A model file with the generated mesh.
AsmStream(lead, has_lod, ls, cs) ==
    HeaderBytes(XacFourcc, 0) \o lead \o MeshFrame(has_lod, AsmMeshBytes(has_lod, ls, cs))

\* The state export_all_meshes_into_struct starts in.
AsmStart ==
    [pc |-> "all", index |-> 0, all_meshes |-> <<>>, sub |-> 0, vertex_offset |-> 0,
     offset_top |-> 0, submeshes |-> <<>>, trace |-> <<>>, result |-> "running",
     error |-> <<>>]

\* The XACFile load_from_reader returned for the stream d.
Loaded(d, file) ==
    /\ data = d
    /\ pos = file.pos
    /\ outcome = file.outcome
    /\ chunk = file.chunk
    /\ chunk_data = file.chunk_data
    /\ header = XacHeaderRead(d, 0).rec

InitAsm ==
    /\ overflow_checks = FALSE
    /\ \E lead \in AsmLeads, has_lod \in BOOLEAN, ls \in AsmLayerSets,
          cs \in SeqsUpTo(0..MaxVerts, MaxSubMeshes) :
           Loaded(AsmStream(lead, has_lod, ls, cs),
                  ReadChunkFrom(AsmStream(lead, has_lod, ls, cs), 8, <<>>, <<>>, FALSE))
    /\ pc = "done"
    /\ log = <<>>
    /\ asm = AsmStart
    /\ ipf = IpfIdle

\* A version-2 record handed on without its layers.
CurrentMeshLodBare ==
    IF chunk_data[asm.index + 1].kind = "XACMesh2"
    THEN [chunk_data[asm.index + 1] EXCEPT !.vertex_attribute_layer = <<>>]
    ELSE chunk_data[asm.index + 1]

\* The chunk the loop of export_all_meshes_into_struct is at.  The bodies of
\* export_to_struct and export_to_struct2 are the same text, on the fields
\* XACMesh and XACMesh2 share.
CurrentMesh == chunk_data[asm.index + 1]

\* One step of `for (i, chunk) in self.chunk_data.iter().enumerate()`: a Mesh
\* record enters export_to_struct(2), any other record is passed over.
ExportAllNext ==
    /\ asm.pc = "all"
    /\ asm.index < Len(chunk_data)
    /\ asm' = IF IsMesh(CurrentMesh)
              THEN [asm EXCEPT !.pc = "mesh", !.sub = 0, !.vertex_offset = 0,
                               !.offset_top = 0, !.submeshes = <<>>, !.trace = <<>>]
              ELSE [asm EXCEPT !.index = @ + 1]
    /\ UNCHANGED xacVars
    /\ UNCHANGED <<overflow_checks, ipf>>

\* Ok(all_meshes) after the last chunk.
ExportAllDone ==
    /\ asm.pc = "all"
    /\ asm.index = Len(chunk_data)
    /\ asm' = [asm EXCEPT !.pc = "done", !.result = "Ok"]
    /\ UNCHANGED xacVars
    /\ UNCHANGED <<overflow_checks, ipf>>

\* The end of one iteration of `for (i, submesh) in mesh.sub_meshes..` whose
\* blocks all ran through: push the submesh if it holds data, advance the offset.
\* trace keeps, for every submesh worked on, the offset it started from, how it
\* ended, its place in submeshes (0: not pushed) and the byte offsets read.
\* A sum of 2^32 or more panics under overflow checks and wraps without.
SubMeshDone(submesh, attrs) ==
    asm' = [asm EXCEPT
               !.sub = @ + 1,
               !.pc = IF NextTop(asm.offset_top, asm.vertex_offset, submesh.num_verts) = 2
                         /\ overflow_checks
                      THEN "done" ELSE @,
               !.result = IF NextTop(asm.offset_top, asm.vertex_offset, submesh.num_verts) = 2
                             /\ overflow_checks
                          THEN "Panic" ELSE @,
               !.offset_top = NextTop(@, asm.vertex_offset, submesh.num_verts) % 2,
               !.submeshes = IF HasData(attrs)
                             THEN Append(@, SubMeshData(attrs,
                                      TextureName(GetTextureNames(chunk_data),
                                                  submesh.material_index)))
                             ELSE @,
               !.vertex_offset = NextOffset(@, submesh.num_verts, HasData(attrs)),
               !.trace = Append(@, [sub |-> asm.sub, offset |-> asm.vertex_offset,
                                    wrapped |-> NextTop(asm.offset_top, asm.vertex_offset,
                                                        submesh.num_verts) = 2,
                                    status |-> "Ok",
                                    out |-> IF HasData(attrs) THEN Len(asm.submeshes) + 1 ELSE 0,
                                    reads |-> [kind \in AttribKinds |-> attrs[kind].reads]])]

\* The iteration ends in the block of kind `first`: export_to_struct returns
\* its Err (or panics), and the `?` of export_all_meshes_into_struct returns it.
SubMeshFailed(attrs, first) ==
    asm' = [asm EXCEPT
               !.pc = "done",
               !.result = attrs[first].status,
               !.error = IF attrs[first].status = "Err"
                         THEN [kind |-> "UnexpectedEof", message |-> OutOfBoundsMessage(first)]
                         ELSE <<>>,
               !.trace = Append(@, [sub |-> asm.sub, offset |-> asm.vertex_offset,
                                    wrapped |-> FALSE,
                                    status |-> attrs[first].status,
                                    out |-> 0,
                                    reads |-> [kind \in AttribKinds |->
                                                  IF kind <= first THEN attrs[kind].reads
                                                  ELSE <<>>]])]

\* The eight blocks in order: the first that does not run through ends the iteration.
AfterBlocks(submesh, attrs) ==
    IF \A kind \in AttribKinds : attrs[kind].status = "Ok"
    THEN SubMeshDone(submesh, attrs)
    ELSE SubMeshFailed(attrs, MinOf({kind \in AttribKinds : attrs[kind].status # "Ok"}))

\* One iteration of the submesh loop of export_to_struct / export_to_struct2.
\* A mesh whose offset has reached 2^31 has no layer of a known kind (each
\* vertex below the offset passed the check of every such layer, whose data
\* is shorter than 2^32 bytes), so its blocks read no row.
SubMeshStep ==
    /\ asm.pc = "mesh"
    /\ asm.sub < Len(CurrentMesh.sub_meshes)
    /\ AfterBlocks(CurrentMesh.sub_meshes[asm.sub + 1],
                   SubMeshAttrs(CurrentMesh.vertex_attribute_layer, asm.vertex_offset,
                                CurrentMesh.sub_meshes[asm.sub + 1].num_verts))
    /\ UNCHANGED xacVars
    /\ UNCHANGED <<overflow_checks, ipf>>

\* Ok(Mesh { submesh_count, submeshes }), pushed to all_meshes.
ExportToStructDone ==
    /\ asm.pc = "mesh"
    /\ asm.sub = Len(CurrentMesh.sub_meshes)
    /\ asm' = [asm EXCEPT !.pc = "all", !.index = @ + 1, !.trace = <<>>,
                          !.all_meshes = Append(@, [submesh_count |-> Len(asm.submeshes),
                                                    submeshes |-> asm.submeshes])]
    /\ UNCHANGED xacVars
    /\ UNCHANGED <<overflow_checks, ipf>>

NextAsm == ExportAllNext \/ ExportAllDone \/ SubMeshStep \/ ExportToStructDone

SpecAsm == InitAsm /\ [][NextAsm]_vars

(***************************************************************************)
(* The same assembly on meshes without layers whose submeshes declare      *)
(* vertex counts up to 2^31 - 1, in builds with and without overflow       *)
(* checks.                                                                 *)
(***************************************************************************)
MaxBigSubMeshes == 3    \* submeshes of a generated mesh without layers

BigVerts == {0, 2, 1610612736, 2147483647}

BigStream(has_lod, cs) ==
    HeaderBytes(XacFourcc, 0)
    \o MeshFrame(has_lod, MeshBytes(has_lod, 7, 0, 0, <<>>,
                                    [k \in 1..Len(cs) |-> SubMeshBytes(cs[k], 0, <<>>)]))

InitAsmBig ==
    /\ overflow_checks \in BOOLEAN
    /\ \E has_lod \in BOOLEAN, cs \in SeqsUpTo(BigVerts, MaxBigSubMeshes) :
           Loaded(BigStream(has_lod, cs),
                  ReadChunkFrom(BigStream(has_lod, cs), 8, <<>>, <<>>, overflow_checks))
    /\ pc = "done"
    /\ log = <<>>
    /\ asm = AsmStart
    /\ ipf = IpfIdle

SpecAsmBig == InitAsmBig /\ [][NextAsm]_vars

\* A mesh whose running offset has reached 2^31 has no layer of a known kind.
TopOnlyWithoutLayers ==
    (asm.pc = "mesh" /\ asm.offset_top = 1) =>
        \A kind \in AttribKinds : FindLayer(CurrentMesh.vertex_attribute_layer, kind) = 0

\* C26 (as stated): in assembly the running vertex offset, a 32-bit unsigned
\* sum of the vertex counts of the submeshes worked on, never passes 2^32,
\* whatever the vertex counts are: it neither wraps nor aborts the assembly.
C26_OffsetsNeverWrap ==
    /\ asm.result # "Panic"
    /\ \A k \in 1..Len(asm.trace) : ~asm.trace[k].wrapped

(***************************************************************************)
(* Properties of mesh assembly.  They are about the mesh being assembled:  *)
(* trace holds one entry per submesh of it worked on so far.               *)
(***************************************************************************)
\* The buffer assembly uses for a kind: that of the first layer of the kind.
BufferOf(kind) ==
    CurrentMesh.vertex_attribute_layer[FindLayer(CurrentMesh.vertex_attribute_layer, kind)].mesh_data

\* The kinds a layer of the mesh being assembled has.
PresentKinds ==
    {kind \in AttribKinds : FindLayer(CurrentMesh.vertex_attribute_layer, kind) # 0}

\* The array of a kind in an assembled submesh.
ArrayOf(o, kind) ==
    CASE kind = AttribPositions -> o.positions
      [] kind = AttribNormals -> o.normals
      [] kind = AttribTangents -> o.tangents
      [] kind = AttribUvcoords -> o.uvcoords
      [] kind = AttribColors32 -> o.colors32
      [] kind = AttribOrgvtxnumbers -> o.original_vertex_numbers
      [] kind = AttribColors128 -> o.colors128
      [] OTHER -> o.bitangents

\* c_0 + ... + c_(k-1) for the submeshes subs.
RECURSIVE SumVerts(_, _)
SumVerts(subs, k) == IF k = 0 THEN 0 ELSE SumVerts(subs, k - 1) + subs[k].num_verts

\* The kinds whose buffer in use is too short for submesh i starting at offset.
ShortKinds(i, offset) ==
    {kind \in PresentKinds :
        Len(BufferOf(kind)) < (offset + CurrentMesh.sub_meshes[i].num_verts) * RowWidth(kind)}

\* The kinds of which some layer of the mesh is too short for submesh i.
AnyShortKinds(i, offset) ==
    {kind \in AttribKinds :
        \E k \in 1..Len(CurrentMesh.vertex_attribute_layer) :
            /\ CurrentMesh.vertex_attribute_layer[k].layer_type_id = kind
            /\ Len(CurrentMesh.vertex_attribute_layer[k].mesh_data)
               < (offset + CurrentMesh.sub_meshes[i].num_verts) * RowWidth(kind)}

\* The submesh index an error value carries, -1 when it carries none.
SubmeshIndexOf(err) == IF "submesh_index" \in DOMAIN err THEN err.submesh_index ELSE -1

\* C8 (as the code has it): when the buffer in use of some kind is too short
\* for a submesh, assembly fails with an UnexpectedEof error whose message
\* names the first such kind; no read reaches past the end of a buffer, and a
\* submesh that is returned has a full array for every kind present.
C8_TruncatedBufferFails ==
    \A i \in 1..Len(asm.trace) :
        /\ ShortKinds(i, asm.trace[i].offset) # {} =>
               /\ asm.trace[i].status = "Err"
               /\ asm.result = "Err"
               /\ asm.error = [kind |-> "UnexpectedEof",
                               message |-> OutOfBoundsMessage(
                                   MinOf(ShortKinds(i, asm.trace[i].offset)))]
        /\ asm.trace[i].status \in {"Ok", "Err"}
        /\ \A kind \in AttribKinds :
               \A v \in 1..Len(asm.trace[i].reads[kind]) :
                   asm.trace[i].reads[kind][v] + RowWidth(kind) <= Len(BufferOf(kind))
        /\ asm.trace[i].out # 0 =>
               \A kind \in PresentKinds :
                   Len(ArrayOf(asm.submeshes[asm.trace[i].out], kind))
                   = CurrentMesh.sub_meshes[i].num_verts

\* Assembly failed in the second submesh of a mesh after reading a row of it.
C8_Witness ==
    /\ asm.result = "Err"
    /\ Len(asm.trace) = 2
    /\ \E kind \in AttribKinds : asm.trace[2].reads[kind] # <<>>
    /\ ShortKinds(2, asm.trace[2].offset) # {}

\* C8 (as stated): when any layer present is too short for a submesh, assembly
\* fails with an error that carries the index of the submesh.
C8_ErrorNamesSubmesh ==
    \A i \in 1..Len(asm.trace) :
        AnyShortKinds(i, asm.trace[i].offset) # {} =>
            /\ asm.trace[i].status = "Err"
            /\ SubmeshIndexOf(asm.error) = asm.trace[i].sub

\* C9: submesh k is assembled from the rows [c_0 + .. + c_(k-1), c_0 + .. + c_k)
\* of each buffer, in ascending order, and the offset moves on by c_k after
\* every submesh, pushed or not.
C9_RowsFromPrefixSum ==
    /\ \A i \in 1..Len(asm.trace) :
           /\ asm.trace[i].sub = i - 1
           /\ asm.trace[i].offset = SumVerts(CurrentMesh.sub_meshes, i - 1)
           /\ asm.trace[i].status = "Ok" =>
                  \A kind \in PresentKinds :
                      asm.trace[i].reads[kind]
                      = [v \in 1..CurrentMesh.sub_meshes[i].num_verts |->
                            (SumVerts(CurrentMesh.sub_meshes, i - 1) + v - 1) * RowWidth(kind)]
    /\ (asm.pc = "mesh" /\ asm.result = "running") =>
           asm.vertex_offset = SumVerts(CurrentMesh.sub_meshes, asm.sub)

\* A second submesh assembled from row 2 on after a first one of 2 vertices,
\* and both pushed.
C9_Witness ==
    /\ Len(asm.trace) = 2
    /\ asm.trace[1].out = 1
    /\ asm.trace[2].out = 2
    /\ asm.trace[2].offset = 2
    /\ asm.trace[2].reads[AttribPositions] = <<24>>

\* The n 4-byte groups of the row at byte offset off of buf.
Groups(buf, off, n) == [g \in 1..n |-> SubSeq(buf, off + 4 * g - 3, off + 4 * g)]

\* The row (x, y, ..) with the sign bit of x flipped.
FlipX(row) == [row EXCEPT ![1][4] = (@ + 128) % 256]

\* What C10 has a row of each kind emitted as.
EmittedRow(kind, buf, off) ==
    CASE kind \in {AttribPositions, AttribNormals} -> FlipX(Groups(buf, off, 3))
      [] kind \in {AttribTangents, AttribColors128} -> Groups(buf, off, 4)
      [] kind = AttribUvcoords -> Groups(buf, off, 2)
      [] OTHER -> buf[off + 1] + 256 * buf[off + 2] + 65536 * buf[off + 3]
                  + 16777216 * buf[off + 4]

\* C10: position and normal rows (x, y, z) are emitted as (-x, y, z); tangent,
\* UV, 32-bit colour, 128-bit colour and original-vertex-number rows are
\* emitted as they are.
C10_AxisConvention ==
    \A i \in 1..Len(asm.trace) :
        asm.trace[i].out # 0 =>
            \A kind \in PresentKinds \ {AttribBitangents} :
                \A v \in 1..CurrentMesh.sub_meshes[i].num_verts :
                    ArrayOf(asm.submeshes[asm.trace[i].out], kind)[v]
                    = EmittedRow(kind, BufferOf(kind),
                                 (asm.trace[i].offset + v - 1) * RowWidth(kind))

\* A submesh pushed with rows of every kind, its first position's x changed.
C10_Witness ==
    \E i \in 1..Len(asm.trace) :
        /\ asm.trace[i].out # 0
        /\ PresentKinds = AttribKinds
        /\ CurrentMesh.sub_meshes[i].num_verts > 0
        /\ asm.submeshes[asm.trace[i].out].positions[1][1]
           # SubSeq(BufferOf(AttribPositions), asm.trace[i].offset * 12 + 1,
                    asm.trace[i].offset * 12 + 4)
        /\ asm.submeshes[asm.trace[i].out].uvcoords[1]
           = Groups(BufferOf(AttribUvcoords), asm.trace[i].offset * 8, 2)

\* C11 (as stated): every bitangent row (x, y, z) is emitted as (-x, y, z).
C11_BitangentsNegated ==
    \A i \in 1..Len(asm.trace) :
        (asm.trace[i].out # 0 /\ AttribBitangents \in PresentKinds) =>
            \A v \in 1..CurrentMesh.sub_meshes[i].num_verts :
                asm.submeshes[asm.trace[i].out].bitangents[v]
                = FlipX(Groups(BufferOf(AttribBitangents),
                               (asm.trace[i].offset + v - 1) * 12, 3))

\* The kinds a layer of the Mesh record m has.
KindsOf(m) == {kind \in AttribKinds : FindLayer(m.vertex_attribute_layer, kind) # 0}

\* The submesh records among the first i of m for which some block of the loop
\* body pushes a row: those with vertices, when the mesh has a layer of some kind.
NonEmptySubMeshes(m, i) ==
    {j \in 1..i : m.sub_meshes[j].num_verts > 0 /\ KindsOf(m) # {}}

\* The place in chunk_data of the k-th Mesh record.
NthMesh(k) ==
    CHOOSE j \in 1..Len(chunk_data) :
        /\ IsMesh(chunk_data[j])
        /\ Cardinality({i \in 1..j : IsMesh(chunk_data[i])}) = k

\* C12 (as the code has it): assembly appends one submesh per submesh record
\* that has at least one non-empty attribute array, in declaration order, and
\* none for a record whose arrays are all empty; submesh_count is the number
\* of the former.
C12_OnePerNonEmptySubmesh ==
    /\ \A i \in 1..Len(asm.trace) :
           asm.trace[i].status = "Ok" =>
               asm.trace[i].out
               = IF i \in NonEmptySubMeshes(CurrentMesh, i)
                 THEN Cardinality(NonEmptySubMeshes(CurrentMesh, i)) ELSE 0
    /\ asm.pc = "mesh" =>
           Len(asm.submeshes) = Cardinality(NonEmptySubMeshes(CurrentMesh, asm.sub))
    /\ \A k \in 1..Len(asm.all_meshes) :
           /\ asm.all_meshes[k].submesh_count = Len(asm.all_meshes[k].submeshes)
           /\ asm.all_meshes[k].submesh_count
              = Cardinality(NonEmptySubMeshes(chunk_data[NthMesh(k)],
                                              Len(chunk_data[NthMesh(k)].sub_meshes)))

\* A mesh returned with one submesh for its two submesh records: the first has
\* no vertices, the second was pushed.
C12_Witness ==
    /\ asm.all_meshes # <<>>
    /\ Len(chunk_data[NthMesh(Len(asm.all_meshes))].sub_meshes) = 2
    /\ chunk_data[NthMesh(Len(asm.all_meshes))].sub_meshes[1].num_verts = 0
    /\ Last(asm.all_meshes).submesh_count = 1
    /\ Last(asm.all_meshes).submeshes[1].position_count = 2

\* C12 (as stated): every submesh record worked on is appended, also one whose
\* arrays are all empty, so the i-th record is the i-th assembled submesh.
C12_OnePerSubmeshRecord ==
    \A i \in 1..Len(asm.trace) :
        asm.trace[i].status = "Ok" => asm.trace[i].out = i

\* A Mesh record one of whose buffers in use ends before the last row a submesh asks for.
TruncatedMesh(m) ==
    \E i \in 1..Len(m.sub_meshes), kind \in KindsOf(m) :
        Len(m.vertex_attribute_layer[FindLayer(m.vertex_attribute_layer, kind)].mesh_data)
        < SumVerts(m.sub_meshes, i) * RowWidth(kind)

\* The places in chunk_data of the Mesh records that are not truncated.
WholeMeshes ==
    {k \in 1..Len(chunk_data) : IsMesh(chunk_data[k]) /\ ~TruncatedMesh(chunk_data[k])}

\* C13 (as stated): when some Mesh records of a model are truncated and others
\* are not, export_all_meshes_into_struct still returns the meshes of the others.
C13_FailureConfinedToMesh ==
    (asm.pc = "done" /\ WholeMeshes # {}) =>
        /\ asm.result = "Ok"
        /\ Len(asm.all_meshes)
           = Cardinality(WholeMeshes)

\* The places in chunk_data of the standard-material records.
MaterialPlaces ==
    {k \in 1..Len(chunk_data) :
        chunk_data[k].kind \in {"XacStandardMaterial", "XacStandardMaterial2",
                                "XacStandardMaterial3"}}

\* The name at position n (from 0) of the material name table.
MaterialNameAt(n) ==
    chunk_data[CHOOSE k \in MaterialPlaces :
                   Cardinality({j \in MaterialPlaces : j < k}) = n].material_name

\* C14: an assembled submesh has the empty texture name when its
\* material_index is 0 or at or beyond the length of the material name table,
\* and the table's entry at position material_index (counted from 0)
\* otherwise; assembly fails or ends early for a short buffer only.
C14_TextureNameResolution ==
    \A i \in 1..Len(asm.trace) :
        /\ asm.trace[i].out # 0 =>
               asm.submeshes[asm.trace[i].out].texture_name
               = IF CurrentMesh.sub_meshes[i].material_index = 0
                    \/ CurrentMesh.sub_meshes[i].material_index >= Cardinality(MaterialPlaces)
                 THEN <<>>
                 ELSE MaterialNameAt(CurrentMesh.sub_meshes[i].material_index)
        /\ asm.trace[i].status # "Ok" =>
               /\ asm.trace[i].status = "Err"
               /\ ShortKinds(i, asm.trace[i].offset) # {}

\* Two submeshes pushed for a model with two materials: the first, of
\* material_index 0, has no name, the second, of material_index 1, has the
\* second name of the table.
C14_Witness ==
    /\ Len(asm.submeshes) = 2
    /\ Cardinality(MaterialPlaces) = 2
    /\ asm.submeshes[1].texture_name = <<>>
    /\ asm.submeshes[2].texture_name = <<98, 65533>>

(***************************************************************************)
(* The assembly of one mesh as a function of its layers and submesh        *)
(* records alone, given the texture names of the decoded chunks.           *)
(***************************************************************************)
RECURSIVE AssembledFrom(_, _, _, _, _, _)
\* The rest of the assembly after the blocks of submesh record k gave attrs.
AssembledAfter(layers, subs, textures, k, vertex_offset, acc, attrs) ==
    IF \E kind \in AttribKinds : attrs[kind].status # "Ok"
    THEN [result |-> "Err",
          error |-> OutOfBoundsMessage(
                        MinOf({kind \in AttribKinds : attrs[kind].status # "Ok"})),
          mesh |-> <<>>]
    ELSE AssembledFrom(layers, subs, textures, k + 1, vertex_offset + subs[k].num_verts,
                       IF \E kind \in AttribKinds : attrs[kind].rows # <<>>
                       THEN Append(acc, SubMeshData(attrs,
                                TextureName(textures, subs[k].material_index)))
                       ELSE acc)

AssembledFrom(layers, subs, textures, k, vertex_offset, acc) ==
    IF k > Len(subs)
    THEN [result |-> "Ok", error |-> "",
          mesh |-> [submesh_count |-> Len(acc), submeshes |-> acc]]
    ELSE AssembledAfter(layers, subs, textures, k, vertex_offset, acc,
                        SubMeshAttrs(layers, vertex_offset, subs[k].num_verts))

\* What the version-1 assembler returns for a version-1 record with the
\* layers and submesh records of m.
AssembledAsVersion1(m) ==
    AssembledFrom(m.vertex_attribute_layer, m.sub_meshes, GetTextureNames(chunk_data),
                  1, 0, <<>>)

CountOf(o, kind) ==
    CASE kind = AttribPositions -> o.position_count
      [] kind = AttribNormals -> o.normal_count
      [] kind = AttribTangents -> o.tangent_count
      [] kind = AttribUvcoords -> o.uvcoord_count
      [] kind = AttribColors32 -> o.color32_count
      [] kind = AttribOrgvtxnumbers -> o.original_vertex_numbers_count
      [] kind = AttribColors128 -> o.color128_count
      [] OTHER -> o.bitangent_count

\* The place among the submesh records of m of the one the j-th pushed
\* submesh was filled from.
RecordOf(m, j) ==
    CHOOSE i \in NonEmptySubMeshes(m, Len(m.sub_meshes)) :
        Cardinality(NonEmptySubMeshes(m, i)) = j

\* C29: in every returned mesh submesh_count is the length of the submesh
\* list, every per-attribute count of a submesh is the length of its array,
\* and every array is empty when the mesh has no layer of its kind and holds
\* exactly num_verts rows of its submesh record when it has one.
C29_CountsMatchArrays ==
    \A k \in 1..Len(asm.all_meshes) :
        LET out == asm.all_meshes[k]
            m == chunk_data[NthMesh(k)]
        IN  /\ out.submesh_count = Len(out.submeshes)
            /\ \A j \in 1..Len(out.submeshes) : \A kind \in AttribKinds :
                   /\ CountOf(out.submeshes[j], kind)
                      = Len(ArrayOf(out.submeshes[j], kind))
                   /\ Len(ArrayOf(out.submeshes[j], kind))
                      = IF kind \in KindsOf(m)
                        THEN m.sub_meshes[RecordOf(m, j)].num_verts ELSE 0

\* A returned mesh with a submesh that has original vertex numbers and an
\* absent kind, after a submesh record that pushed nothing.
C29_Witness ==
    /\ asm.pc = "done"
    /\ asm.result = "Ok"
    /\ \E k \in 1..Len(asm.all_meshes) :
           LET out == asm.all_meshes[k]
               m == chunk_data[NthMesh(k)]
           IN  \E j \in 1..Len(out.submeshes) :
                   /\ out.submeshes[j].original_vertex_numbers_count > 0
                   /\ \E kind \in AttribKinds :
                          ArrayOf(out.submeshes[j], kind) = <<>>
                   /\ RecordOf(m, j) > j

(***************************************************************************)
(* BinaryReader over a stream: seeks, reads of one byte and the probes     *)
(* is_eof, tell and file_size, in any order.  log keeps, for every call,   *)
(* its name, the position before and after it, and what it returned.       *)
(***************************************************************************)
MaxOps == 4         \* calls on a reader
MaxStream == 2      \* bytes of a stream under a reader

ReaderStreams == SeqsUpTo({1, 2}, MaxStream)

InitReader ==
    /\ overflow_checks = FALSE
    /\ data \in ReaderStreams
    /\ pos = 0
    /\ pc = "reader"
    /\ outcome = "running"
    /\ header = [fourcc |-> 0, hi_version |-> 0, lo_version |-> 0,
                 endian_type |-> 0, mul_order |-> 0]
    /\ chunk = <<>>
    /\ chunk_data = <<>>
    /\ log = <<>>
    /\ asm = AsmIdle
    /\ ipf = IpfIdle

\* A call `op` that returned r.value and left the reader at r.pos.
Called(op, r) ==
    /\ pc = "reader"
    /\ Len(log) < MaxOps
    /\ pos' = r.pos
    /\ log' = Append(log, [op |-> op, before |-> pos, after |-> r.pos, value |-> r.value])
    /\ UNCHANGED <<overflow_checks, data, pc, outcome, header, chunk, chunk_data, asm, ipf>>

\* seek(SeekFrom::Start(p)), to the end of the stream and one past it too.
ReaderSeek == \E p \in 0..(Len(data) + 1) : Called("seek", [value |-> p, pos |-> p])

\* read_u8: Err(UnexpectedEof) when no byte is left.
ReaderReadU8 ==
    Called("read_u8", IF CanRead(data, pos, 1) THEN [value |-> ByteAt(data, pos), pos |-> pos + 1]
                      ELSE [value |-> -1, pos |-> pos])

ReaderIsEof == Called("is_eof", is_eof(data, pos))

ReaderTell == Called("tell", tell(data, pos))

ReaderFileSize == Called("file_size", file_size(data, pos))

NextReader == ReaderSeek \/ ReaderReadU8 \/ ReaderIsEof \/ ReaderTell \/ ReaderFileSize

SpecReader == InitReader /\ [][NextReader]_vars

\* The calls of log that are probes.
Probes == {k \in 1..Len(log) : log[k].op \in {"is_eof", "tell", "file_size"}}

\* C30: is_eof, tell and file_size leave the stream position as it was,
\* is_eof in both of its outcomes, and is_eof answers true exactly when the
\* position is at or past the end of the stream (tell answers the position,
\* file_size the length of the stream).
C30_ProbesKeepPosition ==
    pc = "reader" =>
        \A k \in Probes :
            /\ log[k].after = log[k].before
            /\ log[k].op = "is_eof" => (log[k].value <=> log[k].before >= Len(data))
            /\ log[k].op = "tell" => log[k].value = log[k].before
            /\ log[k].op = "file_size" => log[k].value = Len(data)

\* is_eof answered false with bytes left, then true from past the end of the
\* stream, and file_size was asked from there.
C30_Witness ==
    /\ pc = "reader"
    /\ Len(log) = 4
    /\ log[1].op = "is_eof" /\ ~log[1].value
    /\ log[2].op = "seek" /\ log[2].after = Len(data) + 1
    /\ log[3].op = "is_eof" /\ log[3].value
    /\ log[4].op = "file_size" /\ log[4].before > Len(data)

(***************************************************************************)
(* IPFFileTable: the cipher of extract.  A u32 is kept as its 4 bytes,     *)
(* least significant first, so that all 32 bits of the registers and of    *)
(* CRC32_TABLE are there; the arithmetic is done on the bytes.             *)
(***************************************************************************)
MaxLen == 4     \* bytes of a generated buffer

\* CRC32_TABLE, each entry as 4 bytes.
CRC32_TABLE ==
    <<
       <<0, 0, 0, 0>>, <<150, 48, 7, 119>>, <<44, 97, 14, 238>>, <<186, 81, 9, 153>>,
       <<25, 196, 109, 7>>, <<143, 244, 106, 112>>, <<53, 165, 99, 233>>, <<163, 149, 100, 158>>,
       <<50, 136, 219, 14>>, <<164, 184, 220, 121>>, <<30, 233, 213, 224>>, <<136, 217, 210, 151>>,
       <<43, 76, 182, 9>>, <<189, 124, 177, 126>>, <<7, 45, 184, 231>>, <<145, 29, 191, 144>>,
       <<100, 16, 183, 29>>, <<242, 32, 176, 106>>, <<72, 113, 185, 243>>, <<222, 65, 190, 132>>,
       <<125, 212, 218, 26>>, <<235, 228, 221, 109>>, <<81, 181, 212, 244>>, <<199, 133, 211, 131>>,
       <<86, 152, 108, 19>>, <<192, 168, 107, 100>>, <<122, 249, 98, 253>>, <<236, 201, 101, 138>>,
       <<79, 92, 1, 20>>, <<217, 108, 6, 99>>, <<99, 61, 15, 250>>, <<245, 13, 8, 141>>,
       <<200, 32, 110, 59>>, <<94, 16, 105, 76>>, <<228, 65, 96, 213>>, <<114, 113, 103, 162>>,
       <<209, 228, 3, 60>>, <<71, 212, 4, 75>>, <<253, 133, 13, 210>>, <<107, 181, 10, 165>>,
       <<250, 168, 181, 53>>, <<108, 152, 178, 66>>, <<214, 201, 187, 219>>, <<64, 249, 188, 172>>,
       <<227, 108, 216, 50>>, <<117, 92, 223, 69>>, <<207, 13, 214, 220>>, <<89, 61, 209, 171>>,
       <<172, 48, 217, 38>>, <<58, 0, 222, 81>>, <<128, 81, 215, 200>>, <<22, 97, 208, 191>>,
       <<181, 244, 180, 33>>, <<35, 196, 179, 86>>, <<153, 149, 186, 207>>, <<15, 165, 189, 184>>,
       <<158, 184, 2, 40>>, <<8, 136, 5, 95>>, <<178, 217, 12, 198>>, <<36, 233, 11, 177>>,
       <<135, 124, 111, 47>>, <<17, 76, 104, 88>>, <<171, 29, 97, 193>>, <<61, 45, 102, 182>>,
       <<144, 65, 220, 118>>, <<6, 113, 219, 1>>, <<188, 32, 210, 152>>, <<42, 16, 213, 239>>,
       <<137, 133, 177, 113>>, <<31, 181, 182, 6>>, <<165, 228, 191, 159>>, <<51, 212, 184, 232>>,
       <<162, 201, 7, 120>>, <<52, 249, 0, 15>>, <<142, 168, 9, 150>>, <<24, 152, 14, 225>>,
       <<187, 13, 106, 127>>, <<45, 61, 109, 8>>, <<151, 108, 100, 145>>, <<1, 92, 99, 230>>,
       <<244, 81, 107, 107>>, <<98, 97, 108, 28>>, <<216, 48, 101, 133>>, <<78, 0, 98, 242>>,
       <<237, 149, 6, 108>>, <<123, 165, 1, 27>>, <<193, 244, 8, 130>>, <<87, 196, 15, 245>>,
       <<198, 217, 176, 101>>, <<80, 233, 183, 18>>, <<234, 184, 190, 139>>, <<124, 136, 185, 252>>,
       <<223, 29, 221, 98>>, <<73, 45, 218, 21>>, <<243, 124, 211, 140>>, <<101, 76, 212, 251>>,
       <<88, 97, 178, 77>>, <<206, 81, 181, 58>>, <<116, 0, 188, 163>>, <<226, 48, 187, 212>>,
       <<65, 165, 223, 74>>, <<215, 149, 216, 61>>, <<109, 196, 209, 164>>, <<251, 244, 214, 211>>,
       <<106, 233, 105, 67>>, <<252, 217, 110, 52>>, <<70, 136, 103, 173>>, <<208, 184, 96, 218>>,
       <<115, 45, 4, 68>>, <<229, 29, 3, 51>>, <<95, 76, 10, 170>>, <<201, 124, 13, 221>>,
       <<60, 113, 5, 80>>, <<170, 65, 2, 39>>, <<16, 16, 11, 190>>, <<134, 32, 12, 201>>,
       <<37, 181, 104, 87>>, <<179, 133, 111, 32>>, <<9, 212, 102, 185>>, <<159, 228, 97, 206>>,
       <<14, 249, 222, 94>>, <<152, 201, 217, 41>>, <<34, 152, 208, 176>>, <<180, 168, 215, 199>>,
       <<23, 61, 179, 89>>, <<129, 13, 180, 46>>, <<59, 92, 189, 183>>, <<173, 108, 186, 192>>,
       <<32, 131, 184, 237>>, <<182, 179, 191, 154>>, <<12, 226, 182, 3>>, <<154, 210, 177, 116>>,
       <<57, 71, 213, 234>>, <<175, 119, 210, 157>>, <<21, 38, 219, 4>>, <<131, 22, 220, 115>>,
       <<18, 11, 99, 227>>, <<132, 59, 100, 148>>, <<62, 106, 109, 13>>, <<168, 90, 106, 122>>,
       <<11, 207, 14, 228>>, <<157, 255, 9, 147>>, <<39, 174, 0, 10>>, <<177, 158, 7, 125>>,
       <<68, 147, 15, 240>>, <<210, 163, 8, 135>>, <<104, 242, 1, 30>>, <<254, 194, 6, 105>>,
       <<93, 87, 98, 247>>, <<203, 103, 101, 128>>, <<113, 54, 108, 25>>, <<231, 6, 107, 110>>,
       <<118, 27, 212, 254>>, <<224, 43, 211, 137>>, <<90, 122, 218, 16>>, <<204, 74, 221, 103>>,
       <<111, 223, 185, 249>>, <<249, 239, 190, 142>>, <<67, 190, 183, 23>>, <<213, 142, 176, 96>>,
       <<232, 163, 214, 214>>, <<126, 147, 209, 161>>, <<196, 194, 216, 56>>, <<82, 242, 223, 79>>,
       <<241, 103, 187, 209>>, <<103, 87, 188, 166>>, <<221, 6, 181, 63>>, <<75, 54, 178, 72>>,
       <<218, 43, 13, 216>>, <<76, 27, 10, 175>>, <<246, 74, 3, 54>>, <<96, 122, 4, 65>>,
       <<195, 239, 96, 223>>, <<85, 223, 103, 168>>, <<239, 142, 110, 49>>, <<121, 190, 105, 70>>,
       <<140, 179, 97, 203>>, <<26, 131, 102, 188>>, <<160, 210, 111, 37>>, <<54, 226, 104, 82>>,
       <<149, 119, 12, 204>>, <<3, 71, 11, 187>>, <<185, 22, 2, 34>>, <<47, 38, 5, 85>>,
       <<190, 59, 186, 197>>, <<40, 11, 189, 178>>, <<146, 90, 180, 43>>, <<4, 106, 179, 92>>,
       <<167, 255, 215, 194>>, <<49, 207, 208, 181>>, <<139, 158, 217, 44>>, <<29, 174, 222, 91>>,
       <<176, 194, 100, 155>>, <<38, 242, 99, 236>>, <<156, 163, 106, 117>>, <<10, 147, 109, 2>>,
       <<169, 6, 9, 156>>, <<63, 54, 14, 235>>, <<133, 103, 7, 114>>, <<19, 87, 0, 5>>,
       <<130, 74, 191, 149>>, <<20, 122, 184, 226>>, <<174, 43, 177, 123>>, <<56, 27, 182, 12>>,
       <<155, 142, 210, 146>>, <<13, 190, 213, 229>>, <<183, 239, 220, 124>>, <<33, 223, 219, 11>>,
       <<212, 210, 211, 134>>, <<66, 226, 212, 241>>, <<248, 179, 221, 104>>, <<110, 131, 218, 31>>,
       <<205, 22, 190, 129>>, <<91, 38, 185, 246>>, <<225, 119, 176, 111>>, <<119, 71, 183, 24>>,
       <<230, 90, 8, 136>>, <<112, 106, 15, 255>>, <<202, 59, 6, 102>>, <<92, 11, 1, 17>>,
       <<255, 158, 101, 143>>, <<105, 174, 98, 248>>, <<211, 255, 107, 97>>, <<69, 207, 108, 22>>,
       <<120, 226, 10, 160>>, <<238, 210, 13, 215>>, <<84, 131, 4, 78>>, <<194, 179, 3, 57>>,
       <<97, 38, 103, 167>>, <<247, 22, 96, 208>>, <<77, 71, 105, 73>>, <<219, 119, 110, 62>>,
       <<74, 106, 209, 174>>, <<220, 90, 214, 217>>, <<102, 11, 223, 64>>, <<240, 59, 216, 55>>,
       <<83, 174, 188, 169>>, <<197, 158, 187, 222>>, <<127, 207, 178, 71>>, <<233, 255, 181, 48>>,
       <<28, 242, 189, 189>>, <<138, 194, 186, 202>>, <<48, 147, 179, 83>>, <<166, 163, 180, 36>>,
       <<5, 54, 208, 186>>, <<147, 6, 215, 205>>, <<41, 87, 222, 84>>, <<191, 103, 217, 35>>,
       <<46, 122, 102, 179>>, <<184, 74, 97, 196>>, <<2, 27, 104, 93>>, <<148, 43, 111, 42>>,
       <<55, 190, 11, 180>>, <<161, 142, 12, 195>>, <<27, 223, 5, 90>>, <<141, 239, 2, 45>>
    >>

PASSWORD ==
    <<111, 102, 79, 49, 97, 48, 117, 101, 88, 65, 63, 32, 91, 255, 115, 32, 104, 32, 37, 63>>

\* a ^ b on n-bit numbers.
RECURSIVE XorBits(_, _, _)
XorBits(a, b, n) ==
    IF n = 0 THEN 0
    ELSE ((a + b) % 2) + 2 * XorBits(a \div 2, b \div 2, n - 1)

\* a ^ b on u8 and on u32.
Xor8(a, b) == XorBits(a, b, 8)
Xor32(a, b) == [k \in 1..4 |-> Xor8(a[k], b[k])]

\* `b as u32`.
FromU8(b) == <<b, 0, 0, 0>>

\* crc >> 8.
Shr8(x) == <<x[2], x[3], x[4], 0>>

\* A u32 from the two 17-bit sums of its halves: the value modulo 2^32 and
\* whether the sum went beyond 32 bits.
SumOfHalves(lo, hi) ==
    [value |-> <<lo % 256, (lo \div 256) % 256, hi % 256, (hi \div 256) % 256>>,
     carry |-> hi >= 65536]

\* a + b on u32.
AddU32(a, b) ==
    SumOfHalves(a[1] + 256 * a[2] + b[1] + 256 * b[2],
                a[3] + 256 * a[4] + b[3] + 256 * b[4]
                + (a[1] + 256 * a[2] + b[1] + 256 * b[2]) \div 65536)

\* The four lowest byte columns of a product, carried from each into the next.
Carried(c1, c2, c3, c4) ==
    <<c1 % 256,
      (c2 + c1 \div 256) % 256,
      (c3 + (c2 + c1 \div 256) \div 256) % 256,
      (c4 + (c3 + (c2 + c1 \div 256) \div 256) \div 256) % 256>>

\* a.wrapping_mul(b) on u32.
wrapping_mul(a, b) ==
    Carried(a[1] * b[1],
            a[1] * b[2] + a[2] * b[1],
            a[1] * b[3] + a[2] * b[2] + a[3] * b[1],
            a[1] * b[4] + a[2] * b[3] + a[3] * b[2] + a[4] * b[1])

\* CRC32_TABLE[((crc ^ b as u32) & 0xFF) as usize] ^ (crc >> 8)
compute_crc32(crc, b) == Xor32(CRC32_TABLE[Xor8(crc[1], b) + 1], Shr8(crc))

\* (value >> (byte_index * 8)) as u8
extract_byte(value, byte_index) == value[byte_index + 1]

\* 0x8088405u32.wrapping_mul((keys[0] as u8 as u32) + keys[1]) + 1, keys[0]
\* being the register already updated: the value modulo 2^32, and whether one
\* of the two `+` went beyond 32 bits.  <<5, 132, 8, 8>> is 0x8088405.
Key1(key0, key1) ==
    [value |-> AddU32(wrapping_mul(<<5, 132, 8, 8>>, AddU32(FromU8(key0[1]), key1).value),
                      FromU8(1)).value,
     overflow |-> \/ AddU32(FromU8(key0[1]), key1).carry
                  \/ AddU32(wrapping_mul(<<5, 132, 8, 8>>, AddU32(FromU8(key0[1]), key1).value),
                            FromU8(1)).carry]

\* The registers after the first two steps of keys_update; the third step.
KeysAfterKey1(key0, k1, key2, oc) ==
    [keys |-> <<key0, k1.value, compute_crc32(key2, extract_byte(k1.value, 3))>>,
     panic |-> oc /\ k1.overflow]

\* An update whose second step takes the low byte of keys[0] as it was before
\* the first step.
keys_update_stale(keys, b, oc) ==
    KeysAfterKey1(compute_crc32(keys[1], b), Key1(keys[1], keys[2]), keys[3], oc)

\* keys_update(keys, b).  With overflow checks (oc) a `+` that goes beyond
\* 32 bits panics; without them it wraps.
keys_update(keys, b, oc) ==
    KeysAfterKey1(compute_crc32(keys[1], b),
                  Key1(compute_crc32(keys[1], b), keys[2]), keys[3], oc)

\* [0x12345678, 0x23456789, 0x34567890]
InitialKeys == <<<<120, 86, 52, 18>>, <<137, 103, 69, 35>>, <<144, 120, 86, 52>>>>

\* The loop of keys_generate over the first n bytes of PASSWORD.
RECURSIVE KeysAfterPassword(_, _)
KeysAfterUpdate(r, b, oc) ==
    IF r.panic THEN r ELSE keys_update(r.keys, b, oc)

KeysAfterPassword(n, oc) ==
    IF n = 0 THEN [keys |-> InitialKeys, panic |-> FALSE]
    ELSE KeysAfterUpdate(KeysAfterPassword(n - 1, oc), PASSWORD[n], oc)

\* keys_generate(), with overflow checks and without.
KeysChecked == KeysAfterPassword(Len(PASSWORD), TRUE)
KeysWrapping == KeysAfterPassword(Len(PASSWORD), FALSE)

keys_generate(oc) == IF oc THEN KeysChecked ELSE KeysWrapping

\* let v = (keys[2] & 0xFFFD) | 2;
V(key2) == <<IF (key2[1] \div 2) % 2 = 1 THEN key2[1] ELSE key2[1] + 2, key2[2], 0, 0>>

\* v ^ 1
VXor1(v) == <<IF v[1] % 2 = 1 THEN v[1] - 1 ELSE v[1] + 1, v[2], v[3], v[4]>>

\* ((v.wrapping_mul(v ^ 1)) >> 8) as u8: the byte buffer[idx] is XORed with.
KeystreamByte(key2) == extract_byte(wrapping_mul(V(key2), VXor1(V(key2))), 1)

\* let buffer_size = (buffer.len() - 1) / 2 + 1;
buffer_size(len) == (len - 1) \div 2 + 1

\* let idx = i * 2;
Idx(i) == i * 2

\* The state of the loop of decrypt: the buffer, the registers, the indices
\* written so far, and whether keys_update panicked.
DecryptState(buffer, keys, visited, panic) ==
    [buffer |-> buffer, keys |-> keys, visited |-> visited, panic |-> panic]

\* buffer[idx] ^= keystream byte, done (the byte is now b); keys_update(&mut keys, buffer[idx]).
AfterXor(r, idx, b, oc) ==
    DecryptState([r.buffer EXCEPT ![idx + 1] = b],
                 keys_update(r.keys, b, oc).keys,
                 Append(r.visited, idx),
                 keys_update(r.keys, b, oc).panic)

\* The body of `for i in 0..buffer_size` of decrypt.
DecryptIteration(r, i, oc) ==
    IF Idx(i) < Len(r.buffer)
    THEN AfterXor(r, Idx(i), Xor8(r.buffer[Idx(i) + 1], KeystreamByte(r.keys[3])), oc)
    ELSE r

\* The loop of decrypt from iteration i on.
RECURSIVE DecryptLoop(_, _, _, _)
DecryptLoop(r, i, n, oc) ==
    IF r.panic \/ i >= n THEN r
    ELSE DecryptLoop(DecryptIteration(r, i, oc), i + 1, n, oc)

\* decrypt(buffer): the buffer it leaves, and whether it panicked on the way.
decrypt(buffer, oc) ==
    IF buffer = <<>> THEN DecryptState(buffer, <<>>, <<>>, FALSE)
    ELSE DecryptLoop(DecryptState(buffer, keys_generate(oc).keys, <<>>, keys_generate(oc).panic),
                     0, buffer_size(Len(buffer)), oc)

\* The encrypt helper the specification describes: the registers and the
\* keystream byte of decrypt, the key update fed with the plaintext byte;
\* its arithmetic wraps.
EncryptAt(r, idx) ==
    DecryptState([r.buffer EXCEPT ![idx + 1] = Xor8(@, KeystreamByte(r.keys[3]))],
                 keys_update(r.keys, r.buffer[idx + 1], FALSE).keys,
                 Append(r.visited, idx), FALSE)

RECURSIVE EncryptLoop(_, _)
EncryptLoop(r, idx) ==
    IF idx >= Len(r.buffer) THEN r ELSE EncryptLoop(EncryptAt(r, idx), idx + 2)

Encrypt(x) == EncryptLoop(DecryptState(x, KeysWrapping.keys, <<>>, FALSE), 0).buffer

\* The plaintexts of the generated buffers: all byte strings over three byte
\* values up to MaxLen bytes, and two of 9 bytes on which a `+` of keys_update
\* goes beyond 32 bits at the byte of index 6 (the first `+` on the first,
\* the `+ 1` on the second).
CipherPlaintexts ==
    SeqsUpTo({0, 65, 255}, MaxLen)
    \cup { <<156, 0, 212, 0, 17, 0, 0, 0, 0>>, <<80, 1, 158, 2, 239, 3, 209, 4, 5>> }

\* decrypt is called on the buffer Encrypt(x).
CipherStart(x) ==
    [pc |-> "decrypt", plain |-> x, input |-> Encrypt(x), i |-> 0,
     state |-> DecryptState(Encrypt(x), <<>>, <<>>, FALSE)]

InitCipher ==
    /\ overflow_checks \in BOOLEAN
    /\ data = <<>>
    /\ pos = 0
    /\ pc = "idle"
    /\ outcome = "running"
    /\ header = [fourcc |-> 0, hi_version |-> 0, lo_version |-> 0,
                 endian_type |-> 0, mul_order |-> 0]
    /\ chunk = <<>>
    /\ chunk_data = <<>>
    /\ log = <<>>
    /\ asm = AsmIdle
    /\ \E x \in CipherPlaintexts : ipf = CipherStart(x)

\* `if buffer.is_empty() { return; }`, else keys_generate.
DecryptEnter ==
    /\ ipf.pc = "decrypt"
    /\ ipf' = IF ipf.input = <<>>
              THEN [ipf EXCEPT !.pc = "returned"]
              ELSE [ipf EXCEPT !.pc = IF keys_generate(overflow_checks).panic
                                      THEN "panicked" ELSE "loop",
                               !.state.keys = keys_generate(overflow_checks).keys]
    /\ UNCHANGED xacVars
    /\ UNCHANGED <<overflow_checks, asm>>

\* One iteration of the loop of decrypt.
LoopStep(r) ==
    ipf' = [ipf EXCEPT !.state = r, !.i = @ + 1,
                       !.pc = IF r.panic THEN "panicked" ELSE "loop"]

DecryptStep ==
    /\ ipf.pc = "loop"
    /\ ipf.i < buffer_size(Len(ipf.state.buffer))
    /\ LoopStep(DecryptIteration(ipf.state, ipf.i, overflow_checks))
    /\ UNCHANGED xacVars
    /\ UNCHANGED <<overflow_checks, asm>>

\* The loop of decrypt is over.
DecryptReturn ==
    /\ ipf.pc = "loop"
    /\ ipf.i = buffer_size(Len(ipf.state.buffer))
    /\ ipf' = [ipf EXCEPT !.pc = "returned"]
    /\ UNCHANGED xacVars
    /\ UNCHANGED <<overflow_checks, asm>>

NextCipher == DecryptEnter \/ DecryptStep \/ DecryptReturn

SpecCipher == InitCipher /\ [][NextCipher]_vars

\* The stepwise loop and decrypt as a function agree.
DecryptStepsAgree ==
    ipf.pc \in {"returned", "panicked"} =>
        /\ ipf.state.buffer = decrypt(ipf.input, overflow_checks).buffer
        /\ (ipf.pc = "panicked") = decrypt(ipf.input, overflow_checks).panic

\* C15 (as stated): for every buffer, decrypt leaves the length and every
\* odd-indexed byte as they were and writes the even indices 0, 2, ..,
\* 2 * (ceil(N / 2) - 1), each once, in ascending order.
C15_DecryptTouchesEvenIndices ==
    /\ Len(ipf.state.buffer) = Len(ipf.input)
    /\ \A k \in 1..Len(ipf.input) :
           k % 2 = 0 => ipf.state.buffer[k] = ipf.input[k]
    /\ ipf.pc \in {"returned", "panicked"} =>
           ipf.state.visited = [k \in 1..((Len(ipf.input) + 1) \div 2) |-> 2 * (k - 1)]

\* C16 (as stated): decrypt gives back every buffer x from Encrypt(x).
C16_DecryptInvertsEncrypt ==
    ipf.pc \in {"returned", "panicked"} =>
        /\ ipf.pc = "returned"
        /\ ipf.state.buffer = ipf.plain

\* The byte index the iteration ipf.i of the loop works on.
StepIdx == Idx(ipf.i) + 1

\* An iteration of the loop of decrypt that wrote a byte and whose key update
\* ran to its end.
UpdatedStep ==
    /\ ipf.pc = "loop"
    /\ ipf'.pc = "loop"
    /\ ipf'.i = ipf.i + 1
    /\ Idx(ipf.i) < Len(ipf.state.buffer)

\* The three steps of the key update, and what decrypt feeds it.
StepsInOrder ==
    /\ ipf'.state.buffer[StepIdx]
           = Xor8(ipf.state.buffer[StepIdx], KeystreamByte(ipf.state.keys[3]))
    /\ ipf'.state.keys[1] = compute_crc32(ipf.state.keys[1], ipf'.state.buffer[StepIdx])
    /\ ipf'.state.keys[2] = Key1(ipf'.state.keys[1], ipf.state.keys[2]).value
    /\ ipf'.state.keys[3]
           = compute_crc32(ipf.state.keys[3], extract_byte(ipf'.state.keys[2], 3))

\* C22: the key update replaces key0 by the CRC table step of (key0, b),
\* computes key1 from the low byte of the key0 just updated, and replaces key2
\* by the CRC table step of (key2, bits 24..31 of the key1 just updated); in
\* decrypt the keystream byte for an index comes from key2 before the update,
\* and the update is fed the byte after the XOR.
C22_UpdateStepsInOrder == [][UpdatedStep => StepsInOrder]_vars

\* Two iterations ran on a buffer whose first plaintext byte differs from its
\* ciphertext byte, the registers having changed at each.
C22_Witness ==
    /\ ipf.pc = "loop"
    /\ ipf.i = 2
    /\ ipf.state.buffer[1] # ipf.input[1]
    /\ ipf.state.visited = <<0, 2>>
    /\ ipf.state.keys # keys_generate(overflow_checks).keys

\* C27 (as stated): no key update aborts on overflow: the two sums are
\* reduced modulo 2^32 whatever the registers and the byte are.
C27_UpdateNeverAborts == ipf.pc # "panicked" /\ ~ipf.state.panic

(***************************************************************************)
(* IPFFile::load_from_reader: read_footer, then read_file_table.           *)
(* data and pos are the archive's bytes and the reader's position;         *)
(* ipf.reads keeps the <<position, length>> of every read asked of the     *)
(* reader.                                                                 *)
(***************************************************************************)
MaxEntries == 2     \* file-table entries of a generated archive
MaxExtracts == 3    \* extract calls on an opened archive

HEADER_LOCATION == -24
MAGIC_NUMBER == 101010256

\* One IPFFileTable entry as it lies in the archive.
EntryBytes(e) ==
    LE16(Len(e.directory_name)) \o LE32(e.crc32) \o LE32(e.file_size_compressed)
    \o LE32(e.file_size_uncompressed) \o LE32(e.file_pointer)
    \o LE16(Len(e.container_name)) \o e.container_name \o e.directory_name

\* The 24 bytes of an IPFFooter.
FooterBytes(file_count, file_table_pointer, footer_pointer, magic) ==
    LE16(file_count) \o LE32(file_table_pointer) \o LE16(0) \o LE32(footer_pointer)
    \o LE32(magic) \o LE32(1) \o LE32(2)

\* The payloads of a generated archive before encryption: a raw-deflate
\* stream of one stored block holding the byte 65; a stream whose first block
\* has the reserved type 3; 9 bytes on which the `+ 1` of keys_update goes
\* beyond 32 bits (read as deflate: a stored block whose two length fields
\* do not agree).
Payloads ==
    <<<<1, 1, 0, 254, 255, 65>>, <<7, 0, 0>>, <<80, 1, 158, 2, 239, 3, 209, 4, 5>>>>

\* The file data of a generated archive: the three payloads, encrypted.
FileData == Encrypt(Payloads[1]) \o Encrypt(Payloads[2]) \o Encrypt(Payloads[3])

\* The entries a generated archive is made of: one per payload, and one
\* whose data would end past the archive.
IpfEntries ==
    { [directory_name |-> <<97>>, container_name |-> <<99, 100>>, crc32 |-> 5,
       file_size_compressed |-> Len(Payloads[1]), file_size_uncompressed |-> 1,
       file_pointer |-> 0],
      [directory_name |-> <<98, 98>>, container_name |-> <<99>>, crc32 |-> 6,
       file_size_compressed |-> Len(Payloads[2]), file_size_uncompressed |-> 3,
       file_pointer |-> Len(Payloads[1])],
      [directory_name |-> <<>>, container_name |-> <<>>, crc32 |-> 0,
       file_size_compressed |-> Len(Payloads[3]), file_size_uncompressed |-> 0,
       file_pointer |-> Len(Payloads[1]) + Len(Payloads[2])],
      [directory_name |-> <<100>>, container_name |-> <<>>, crc32 |-> 7,
       file_size_compressed |-> 30000, file_size_uncompressed |-> 1,
       file_pointer |-> 0] }

\* An archive: the file data, the entries es, the footer declaring
\* Len(es) + more entries and closing with magic; cut bytes are dropped from its front.
IpfArchive(es, more, magic, cut) ==
    SubSeq(FileData \o Concat([k \in 1..Len(es) |-> EntryBytes(es[k])])
           \o FooterBytes(Len(es) + more, Len(FileData),
                          Len(FileData) + Len(Concat([k \in 1..Len(es) |-> EntryBytes(es[k])])),
                          magic),
           cut + 1,
           Len(FileData) + Len(Concat([k \in 1..Len(es) |-> EntryBytes(es[k])])) + 24)

IpfStart ==
    [pc |-> "footer", footer |-> <<>>, file_table |-> <<>>, left |-> 0,
     result |-> "running", error |-> <<>>, reads |-> <<>>, extracts |-> <<>>]

InitIpf ==
    /\ overflow_checks \in BOOLEAN
    /\ \E es \in SeqsUpTo(IpfEntries, MaxEntries), more \in {0, 1},
          magic \in {MAGIC_NUMBER, MAGIC_NUMBER + 1, 0}, cut \in {0, 4} :
           data = IpfArchive(es, more, magic, cut)
    /\ pos = 0
    /\ pc = "idle"
    /\ outcome = "running"
    /\ header = [fourcc |-> 0, hi_version |-> 0, lo_version |-> 0,
                 endian_type |-> 0, mul_order |-> 0]
    /\ chunk = <<>>
    /\ chunk_data = <<>>
    /\ log = <<>>
    /\ asm = AsmIdle
    /\ ipf = IpfStart

\* A check that lets every magic pass.
MagicAny(magic) == TRUE

\* The negation of `if footer.magic != MAGIC_NUMBER { return Err(..) }`.
MagicOk(magic) == magic = MAGIC_NUMBER

\* The IPFFooter read field by field from p.
FooterAt(d, p) ==
    [file_count |-> U16At(d, p), file_table_pointer |-> U32At(d, p + 2),
     footer_pointer |-> U32At(d, p + 8), magic |-> U32At(d, p + 12),
     version_to_patch |-> U32At(d, p + 16), new_version |-> U32At(d, p + 20)]

\* The seven reads of read_footer from p.
FooterReads(p) ==
    <<<<p, 2>>, <<p + 2, 4>>, <<p + 6, 2>>, <<p + 8, 4>>, <<p + 12, 4>>, <<p + 16, 4>>,
      <<p + 20, 4>>>>

\* read_footer after the seek to p: the fields are read, then the magic is checked.
FooterStep(p, footer) ==
    /\ pos' = p - HEADER_LOCATION
    /\ ipf' = IF MagicOk(footer.magic)
              THEN [ipf EXCEPT !.pc = "table", !.footer = footer, !.reads = FooterReads(p)]
              ELSE [ipf EXCEPT !.pc = "done", !.result = "Err", !.reads = FooterReads(p),
                               !.error = [kind |-> "InvalidData",
                                          message |-> "Invalid IPF magic number"]]

\* read_footer: seek(SeekFrom::End(HEADER_LOCATION)) fails on an archive of
\* fewer than 24 bytes.
ReadFooter ==
    /\ ipf.pc = "footer"
    /\ IF Len(data) + HEADER_LOCATION < 0
       THEN /\ ipf' = [ipf EXCEPT !.pc = "done", !.result = "Err",
                                  !.error = [kind |-> "InvalidInput",
                                             message |-> "invalid seek to a negative or overflowing position"]]
            /\ pos' = pos
       ELSE FooterStep(Len(data) + HEADER_LOCATION, FooterAt(data, Len(data) + HEADER_LOCATION))
    /\ UNCHANGED <<overflow_checks, data, pc, outcome, header, chunk, chunk_data, log, asm>>

\* read_file_table up to its loop: seek to table_offset.
SeekFileTable ==
    /\ ipf.pc = "table"
    /\ pos' = ipf.footer.file_table_pointer
    /\ ipf' = [ipf EXCEPT !.pc = "entries", !.left = ipf.footer.file_count]
    /\ UNCHANGED <<overflow_checks, data, pc, outcome, header, chunk, chunk_data, log, asm>>

\* The reads of read_file_entry at p that the reader is asked for: the six
\* fields, then the two names if the fields were there.
EntryReads(d, p) ==
    <<<<p, 2>>, <<p + 2, 4>>, <<p + 6, 4>>, <<p + 10, 4>>, <<p + 14, 4>>, <<p + 18, 2>>>>
    \o (IF CanRead(d, p, 20)
        THEN <<<<p + 20, U16At(d, p + 18)>>, <<p + 20 + U16At(d, p + 18), U16At(d, p)>>>>
        ELSE <<>>)

\* The reads up to and with the first that the stream cannot serve.
RECURSIVE ServedReads(_, _)
ServedReads(d, rs) ==
    IF rs = <<>> THEN <<>>
    ELSE IF CanRead(d, Head(rs)[1], Head(rs)[2]) THEN <<Head(rs)>> \o ServedReads(d, Tail(rs))
    ELSE <<Head(rs)>>

\* An entry whose directory name is taken from before its container name.
FileEntryAtPathFirst(d, p) ==
    IF ~CanRead(d, p, 20) \/ ~CanRead(d, p + 20, U16At(d, p + 18) + U16At(d, p))
    THEN Failed
    ELSE [ok |-> TRUE, pos |-> p + 20 + U16At(d, p + 18) + U16At(d, p),
          rec |-> [directory_name_length |-> U16At(d, p),
                   crc32 |-> U32At(d, p + 2),
                   file_size_compressed |-> U32At(d, p + 6),
                   file_size_uncompressed |-> U32At(d, p + 10),
                   file_pointer |-> U32At(d, p + 14),
                   container_name_length |-> U16At(d, p + 18),
                   container_name |-> BytesAt(d, p + 20 + U16At(d, p), U16At(d, p + 18)),
                   directory_name |-> BytesAt(d, p + 20, U16At(d, p))]]

\* read_file_entry at p: the container name lies before the directory name.
FileEntryAt(d, p) ==
    IF ~CanRead(d, p, 20) \/ ~CanRead(d, p + 20, U16At(d, p + 18) + U16At(d, p))
    THEN Failed
    ELSE [ok |-> TRUE, pos |-> p + 20 + U16At(d, p + 18) + U16At(d, p),
          rec |-> [directory_name_length |-> U16At(d, p),
                   crc32 |-> U32At(d, p + 2),
                   file_size_compressed |-> U32At(d, p + 6),
                   file_size_uncompressed |-> U32At(d, p + 10),
                   file_pointer |-> U32At(d, p + 14),
                   container_name_length |-> U16At(d, p + 18),
                   container_name |-> BytesAt(d, p + 20, U16At(d, p + 18)),
                   directory_name |-> BytesAt(d, p + 20 + U16At(d, p + 18), U16At(d, p))]]

EntryStep(e, reads) ==
    IF e.ok
    THEN /\ pos' = e.pos
         /\ ipf' = [ipf EXCEPT !.left = @ - 1, !.file_table = Append(@, e.rec),
                               !.reads = @ \o reads]
    ELSE /\ pos' = Len(data)
         /\ ipf' = [ipf EXCEPT !.pc = "done", !.result = "Err", !.reads = @ \o reads,
                               !.error = [kind |-> "UnexpectedEof",
                                          message |-> "failed to fill whole buffer"]]

\* One iteration of `for _ in 0..file_count` of read_file_table.
ReadFileEntry ==
    /\ ipf.pc = "entries"
    /\ ipf.left > 0
    /\ EntryStep(FileEntryAt(data, pos), ServedReads(data, EntryReads(data, pos)))
    /\ UNCHANGED <<overflow_checks, data, pc, outcome, header, chunk, chunk_data, log, asm>>

\* Ok(IPFFile { footer, file_table }).
LoadDone ==
    /\ ipf.pc = "entries"
    /\ ipf.left = 0
    /\ ipf' = [ipf EXCEPT !.pc = "done", !.result = "Ok"]
    /\ UNCHANGED <<overflow_checks, data, pos, pc, outcome, header, chunk, chunk_data, log, asm>>

(***************************************************************************)
(* IPFFileTable::extract on an entry of the opened archive: seek, read,    *)
(* decrypt, decompress.  ipf.extracts keeps, for every call, the entry,    *)
(* the position the reader was at before it, and the result.               *)
(***************************************************************************)
\* The raw-deflate streams whose decoding is spelled out: stored blocks that
\* lie whole in the input and whose bytes fit the output's capacity, and a
\* block of the reserved type 3, which is an error.  On anything else
\* (Huffman blocks, an input that ends early, an output out of room) the
\* outcome is "Other": what the decompressor makes of that input and that
\* capacity, a function of the two alone.
RECURSIVE InflateFrom(_, _, _, _)
StoredBlock(d, p, out, cap, len) ==
    IF d[p + 2] + 256 * d[p + 3] + d[p + 4] + 256 * d[p + 5] # 65535
    THEN [status |-> "Err", out |-> out]
    ELSE IF p + 5 + len > Len(d) \/ Len(out) + len > cap
    THEN [status |-> "Other", out |-> out]
    ELSE IF d[p + 1] % 2 = 1
    THEN [status |-> "Ok", out |-> out \o SubSeq(d, p + 6, p + 5 + len)]
    ELSE InflateFrom(d, p + 5 + len, out \o SubSeq(d, p + 6, p + 5 + len), cap)

InflateFrom(d, p, out, cap) ==
    IF p >= Len(d) THEN [status |-> "Other", out |-> out]
    ELSE IF (d[p + 1] \div 2) % 4 = 3 THEN [status |-> "Err", out |-> out]
    ELSE IF (d[p + 1] \div 2) % 4 # 0 \/ p + 5 > Len(d)
    THEN [status |-> "Other", out |-> out]
    ELSE StoredBlock(d, p, out, cap, d[p + 2] + 256 * d[p + 3])

\* decompress(data): Decompress::new(false).decompress_vec(data, &mut output, Finish)
\* into a vector of capacity file_size_uncompressed; an error of the
\* decompressor becomes InvalidData "Failed to decompress data".
decompress(d, file_size_uncompressed) ==
    IF InflateFrom(d, 0, <<>>, file_size_uncompressed).status = "Ok"
    THEN [kind |-> "Ok", value |-> InflateFrom(d, 0, <<>>, file_size_uncompressed).out]
    ELSE IF InflateFrom(d, 0, <<>>, file_size_uncompressed).status = "Err"
    THEN [kind |-> "Err", value |-> [kind |-> "InvalidData",
                                     message |-> "Failed to decompress data"]]
    ELSE [kind |-> "Other", value |-> <<d, file_size_uncompressed>>]

\* A seek that is relative to where the reader is.
SeekFromCurrent(position, file_pointer) == position + file_pointer

\* reader.seek(SeekFrom::Start(self.file_pointer as u64))
SeekFromStart(position, file_pointer) == file_pointer

\* extract after the read gave the bytes buf and decrypt left d.
AfterDecrypt(d, file_size_uncompressed) ==
    IF d.panic THEN [kind |-> "Panic", value |-> <<>>]
    ELSE decompress(d.buffer, file_size_uncompressed)

\* extract with the reader at p after the seek: the result and the position it leaves.
ExtractAt(d, p, entry, oc) ==
    IF p > Len(d) \/ entry.file_size_compressed > Len(d) - p
    THEN [result |-> [kind |-> "Err", value |-> [kind |-> "UnexpectedEof",
                                                 message |-> "failed to fill whole buffer"]],
          pos |-> Len(d)]
    ELSE [result |-> AfterDecrypt(decrypt(BytesAt(d, p, entry.file_size_compressed), oc),
                                  entry.file_size_uncompressed),
          pos |-> p + entry.file_size_compressed]

\* What a call of extract leaves: the reader's position, the call in
\* ipf.extracts; a panic ends the program.
AfterExtract(e, x) ==
    /\ pos' = x.pos
    /\ ipf' = [ipf EXCEPT !.extracts = Append(@, [entry |-> e, before |-> pos,
                                                  result |-> x.result]),
                          !.pc = IF x.result.kind = "Panic" THEN "panicked" ELSE @]

\* file_table[e].extract(reader) on the opened archive.
Extract ==
    /\ ipf.pc = "done"
    /\ ipf.result = "Ok"
    /\ Len(ipf.extracts) < MaxExtracts
    /\ \E e \in 1..Len(ipf.file_table) :
           AfterExtract(e, ExtractAt(data, SeekFromStart(pos, ipf.file_table[e].file_pointer),
                                     ipf.file_table[e], overflow_checks))
    /\ UNCHANGED <<overflow_checks, data, pc, outcome, header, chunk, chunk_data, log, asm>>

NextIpf == ReadFooter \/ SeekFileTable \/ ReadFileEntry \/ LoadDone \/ Extract

SpecIpf == InitIpf /\ [][NextIpf]_vars

\* Two calls of extract on the same entry gave the same result.
SameEntrySameResult ==
    \A j, k \in 1..Len(ipf.extracts) :
        ipf.extracts[j].entry = ipf.extracts[k].entry
            => /\ ipf.extracts[j].result.kind = ipf.extracts[k].result.kind
               /\ ipf.extracts[j].result.value = ipf.extracts[k].result.value

\* A call of extract leaves the decoded footer and entry table as they were.
ExtractKeepsArchive ==
    Len(ipf'.extracts) > Len(ipf.extracts)
        => ipf'.file_table = ipf.file_table /\ ipf'.footer = ipf.footer /\ data' = data

\* C17: extract is history-independent and leaves the archive unchanged: the
\* result of extracting an entry is the same whatever calls of extract came
\* before it, failed ones included, and wherever the reader was positioned,
\* and no call changes the decoded footer or entry table.
C17_ExtractHistoryIndependent == []SameEntrySameResult /\ [][ExtractKeepsArchive]_vars

\* An entry was extracted, then the extraction of another entry failed in
\* the decompressor, then the first entry was extracted again from another
\* position of the reader and gave the same bytes.
C17_Witness ==
    /\ Len(ipf.extracts) = 3
    /\ ipf.extracts[1].entry = ipf.extracts[3].entry
    /\ ipf.extracts[1].before # ipf.extracts[3].before
    /\ ipf.extracts[1].result.kind = "Ok"
    /\ ipf.extracts[1].result.value = <<65>>
    /\ ipf.extracts[2].result.kind = "Err"
    /\ ipf.extracts[2].result.value = [kind |-> "InvalidData",
                                       message |-> "Failed to decompress data"]
    /\ ipf.extracts[3].result.kind = "Ok"
    /\ ipf.extracts[3].result.value = <<65>>

\* Where the k-th entry of the decoded table starts in the archive: at
\* file_table_pointer, each entry taking 20 bytes and its two names.
RECURSIVE EntryStart(_)
EntryStart(k) ==
    IF k = 1 THEN ipf.footer.file_table_pointer
    ELSE EntryStart(k - 1) + 20 + Len(ipf.file_table[k - 1].container_name)
                           + Len(ipf.file_table[k - 1].directory_name)

\* The entry e is what the bytes at s hold in the order of the format.
EntryHeldAt(e, s) ==
    /\ e.directory_name_length = U16At(data, s)
    /\ e.crc32 = U32At(data, s + 2)
    /\ e.file_size_compressed = U32At(data, s + 6)
    /\ e.file_size_uncompressed = U32At(data, s + 10)
    /\ e.file_pointer = U32At(data, s + 14)
    /\ e.container_name_length = U16At(data, s + 18)
    /\ e.container_name = BytesAt(data, s + 20, e.container_name_length)
    /\ e.directory_name = BytesAt(data, s + 20 + e.container_name_length,
                                  e.directory_name_length)

\* The reads of the open after the 7 of the footer follow one another
\* from file_table_pointer on without a gap.
TableReadsConsecutive ==
    \A k \in 8..Len(ipf.reads) :
        ipf.reads[k][1] = IF k = 8 THEN ipf.footer.file_table_pointer
                          ELSE ipf.reads[k - 1][1] + ipf.reads[k - 1][2]

\* C23: a successful open yields file_count entries in table order, each
\* decoded from consecutive bytes starting at file_table_pointer in the order
\* directory-name length, crc32, compressed size, uncompressed size, file
\* pointer, container-name length, container-name bytes, directory-name bytes.
C23_EntriesInTableOrder ==
    (ipf.pc = "done" /\ ipf.result = "Ok") =>
        /\ Len(ipf.file_table) = ipf.footer.file_count
        /\ \A k \in 1..Len(ipf.file_table) : EntryHeldAt(ipf.file_table[k], EntryStart(k))
        /\ TableReadsConsecutive
        /\ Len(ipf.reads) = 7 + 8 * ipf.footer.file_count

\* An archive of two entries was opened, the first with a container name of
\* two bytes and a directory name of one, the second with other names.
C23_Witness ==
    /\ ipf.pc = "done"
    /\ ipf.result = "Ok"
    /\ ipf.footer.file_count = 2
    /\ ipf.file_table[1].container_name = <<99, 100>>
    /\ ipf.file_table[1].directory_name = <<97>>
    /\ ipf.file_table[2].container_name = <<99>>
    /\ ipf.file_table[2].directory_name = <<98, 98>>

\* The position of the trailer of the archive.
TrailerAt == Len(data) + HEADER_LOCATION

\* C6: opening an archive whose trailer magic is not 0x6054B50 fails with the
\* invalid-magic error, yields no archive and reads nothing but the trailer.
C6_BadMagicStopsOpen ==
    (/\ ipf.pc # "footer"
     /\ TrailerAt >= 0
     /\ U32At(data, TrailerAt + 12) # MAGIC_NUMBER)
    => /\ ipf.pc = "done"
       /\ ipf.result = "Err"
       /\ ipf.error = [kind |-> "InvalidData", message |-> "Invalid IPF magic number"]
       /\ ipf.file_table = <<>>
       /\ \A k \in 1..Len(ipf.reads) :
              ipf.reads[k][1] >= TrailerAt /\ ipf.reads[k][1] + ipf.reads[k][2] <= Len(data)

\* An archive with entries before a trailer of another magic, after the open failed.
C6_Witness ==
    /\ ipf.pc = "done"
    /\ TrailerAt > 3
    /\ U32At(data, TrailerAt) > 0
    /\ U32At(data, TrailerAt + 12) = MAGIC_NUMBER + 1
    /\ Len(ipf.reads) = 7

====
